---- MODULE Spec2Model ----
(***************************************************************************)
(* django-triplets: the fact store (models.py), the rule engine and the   *)
(* query evaluator (core.py) and the expression algebra (ast.py).         *)
(*                                                                         *)
(* A fact is a tuple <<entity, attr, value>>.  A stored fact is a row of  *)
(* the StoredFact table; its primary key is its position in the sequence  *)
(* `facts`.  A NULL `removed` column is written 0 (transaction ids start  *)
(* at 1).  Hashes (core.storage_hash) are modelled by the text they hash: *)
(* two keys are equal iff the hashed contents are equal.                  *)
(***************************************************************************)
EXTENDS Integers, Sequences, FiniteSets, TLC

(***************************************************************************)
(* Bounds of the model.                                                    *)
(***************************************************************************)
MaxTx == 2
MaxBatch == 2
MaxRounds == 4
MaxClauses == 1
MaxPlanClauses == 3
MaxContexts == 2
MaxDeadTx == 2
MaxLifeTx == 3

(***************************************************************************)
(* Generic helpers on sequences (Python lists and generators).             *)
(***************************************************************************)
RECURSIVE Flatten(_)
Flatten(ss) ==
    IF Len(ss) = 0 THEN <<>>
    ELSE IF Len(ss) = 1 THEN ss[1]
    ELSE Flatten(SubSeq(ss, 1, Len(ss) \div 2))
            \o Flatten(SubSeq(ss, Len(ss) \div 2 + 1, Len(ss)))

RECURSIVE SetToSeq(_)
SetToSeq(S) ==
    IF S = {} THEN <<>>
    ELSE LET x == CHOOSE y \in S : TRUE IN <<x>> \o SetToSeq(S \ {x})

Range(s) == {s[i] : i \in 1..Len(s)}

\* the elements of s in order of first occurrence (iteration of set(s) / dict keys)
Dedup(s) ==
    LET firsts == {i \in 1..Len(s) : \A j \in 1..(i - 1) : s[j] # s[i]}
        nth(k) == CHOOSE i \in firsts : Cardinality({j \in firsts : j <= i}) = k
    IN [k \in 1..Cardinality(firsts) |-> s[nth(k)]]

(***************************************************************************)
(* ast_untyped.py: an Ordinal is a str, an int or a float.  The model      *)
(* writes every ordinal as a text and tells its Python type by the set     *)
(* the text lies in.                                                       *)
(***************************************************************************)
Ints == {"1", "2"}

Floats == {"1.5"}

\* ast.type_name(type(value))
type_name(value) ==
    IF value \in Ints THEN "int" ELSE IF value \in Floats THEN "float" ELSE "str"

(***************************************************************************)
(* settings.TRIPLETS_ATTRIBUTES: the schema.                               *)
(***************************************************************************)
ATTRIBUTES ==
    [child_of      |-> [data_type |-> "str", cardinality |-> "many"],
     descendant_of |-> [data_type |-> "str", cardinality |-> "many"],
     elder         |-> [data_type |-> "str", cardinality |-> "one"],
     age           |-> [data_type |-> "int", cardinality |-> "one"],
     years         |-> [data_type |-> "int", cardinality |-> "many"],
     heir_of       |-> [data_type |-> "str", cardinality |-> "many"],
     height        |-> [data_type |-> "float", cardinality |-> "many"]]

(***************************************************************************)
(* ast.py: expressions.  An ordinal constant, Var(name) and               *)
(* In(name, values) share one record shape.                                *)
(***************************************************************************)
Const(v) == [k |-> "const", n |-> "", vs |-> {v}]
Var(name) == [k |-> "var", n |-> name, vs |-> {}]
In(name, values) == [k |-> "in", n |-> name, vs |-> values]

\* ast.Any with its internal_name (Any itself is a name of the TLC module).
\* The name is "*" and a fresh uuid4; the model names a wildcard after the
\* place it is written at.
AnyExp(internal_name) == [k |-> "any", n |-> internal_name, vs |-> {}]

hidden_name(kind, i, side) == "*" \o kind \o ToString(i) \o side

HiddenNames ==
    {hidden_name(kind, i, side) :
        kind \in {"predicate", "implies"}, i \in 1..MaxPlanClauses,
        side \in {"entity", "value"}}

\* var_name.startswith("*")
is_hidden(var_name) == var_name \in HiddenNames

ConstValue(exp) == CHOOSE v \in exp.vs : TRUE

\* a Context is a dict name -> ordinal: a function on a finite set of names
EmptyContext == [n \in {} |-> ""]

\* Python's dict union a | b: the right operand wins on a shared key
DictUnion(a, b) ==
    [n \in (DOMAIN a) \union (DOMAIN b) |-> IF n \in DOMAIN b THEN b[n] ELSE a[n]]

\* ast.pluck_values: None as soon as one context lacks the name
pluck_values(contexts, name) ==
    IF \E i \in 1..Len(contexts) : name \notin DOMAIN contexts[i]
    THEN [none |-> TRUE, values |-> {}]
    ELSE [none |-> FALSE, values |-> {contexts[i][name] : i \in 1..Len(contexts)}]

\* a substitute that makes a constant of any one of the bound values
VarSubstitute_one_value(exp, contexts) ==
    LET p == pluck_values(contexts, exp.n)
    IN IF p.none \/ p.values = {} THEN exp
       ELSE Const(CHOOSE v \in p.values : TRUE)

\* Var.substitute
VarSubstitute(exp, contexts) ==
    LET p == pluck_values(contexts, exp.n)
    IN IF p.none THEN exp
       ELSE IF Cardinality(p.values) = 1 THEN Const(CHOOSE v \in p.values : TRUE)
       ELSE In(exp.n, p.values)

\* a substitute that leaves the set of an In as it was written
InSubstitute_unchanged(exp, contexts) == exp

\* In.substitute
InSubstitute(exp, contexts) ==
    LET p == pluck_values(contexts, exp.n)
        values == p.values \intersect exp.vs
    IN IF p.none THEN exp
       ELSE IF Cardinality(values) = 1 THEN Const(CHOOSE v \in values : TRUE)
       ELSE In(exp.n, values)

\* ast.Comparison(operator, left, right): an operand is a constant or a Var
Comparison(operator, left, right) ==
    [k |-> "comparison", operator |-> operator, left |-> left, right |-> right]

\* ast.And(left, right)
And(left, right) == [k |-> "and", left |-> left, right |-> right]

\* Python's order on the ordinals of one type
Rank(value) ==
    CASE value = "a" -> 1 [] value = "b" -> 2 [] value = "c" -> 3
      [] value = "1" -> 10 [] value = "1.5" -> 15 [] value = "2" -> 20

\* ast_untyped.operators
operators(operator, x, y) ==
    CASE operator = "<" -> Rank(x) < Rank(y)
      [] operator = "<=" -> Rank(x) <= Rank(y)
      [] operator = ">=" -> Rank(x) >= Rank(y)
      [] operator = ">" -> Rank(x) > Rank(y)

\* ast_untyped.reverse_operator
reverse_operator(operator) ==
    CASE operator = "<" -> ">="
      [] operator = "<=" -> ">"
      [] operator = ">" -> "<="
      [] operator = ">=" -> "<"

max(values) == CHOOSE v \in values : \A w \in values : Rank(w) <= Rank(v)

min(values) == CHOOSE v \in values : \A w \in values : Rank(v) <= Rank(w)

\* Comparison._extreme
extreme(operator, values, goes) ==
    IF operator \in {"<", "<="}
    THEN (IF goes = "right" THEN max(values) ELSE min(values))
    ELSE (IF goes = "right" THEN min(values) ELSE max(values))

\* Var.new_hidden and In.new_null take a fresh uuid4 for a name; the model
\* names the variable after the comparison it is made for
OperandText(operand) == IF operand.k = "const" THEN ConstValue(operand) ELSE "?" \o operand.n

new_hidden(operator, left, right) ==
    Var("uuid4:" \o OperandText(left) \o operator \o OperandText(right))

new_null(name) == In(name, {})

\* Comparison.for_lookup: (Var, operator, Ordinal), or RuntimeError when not
\* exactly one operand is an ordinal
for_lookup(exp) ==
    IF (exp.left.k = "const") # (exp.right.k = "const")
    THEN (IF exp.left.k = "const"
          THEN <<exp.right.n, reverse_operator(exp.operator), ConstValue(exp.left)>>
          ELSE <<exp.left.n, exp.operator, ConstValue(exp.right)>>)
    ELSE <<"RuntimeError">>

\* ComparisionOperand.substitute
OperandSubstitute(operand, contexts) ==
    IF operand.k = "const" THEN operand ELSE VarSubstitute(operand, contexts)

\* the match of Comparison.substitute over the substituted operands
SubstitutedComparison(op, left, right) ==
    CASE left.k = "const" /\ right.k = "const" ->
            And(Comparison(op, left, new_hidden(op, left, right)),
                Comparison(op, new_hidden(op, left, right), right))
      [] left.k = "const" /\ right.k = "var" -> Comparison(op, left, right)
      [] left.k = "const" /\ right.k = "in" ->
            IF right.vs # {}
            THEN And(Comparison(op, left, new_hidden(op, left, right)),
                     Comparison(op, new_hidden(op, left, right),
                                Const(extreme(op, right.vs, "right"))))
            ELSE new_null(new_hidden(op, left, right).n)
      [] left.k = "var" /\ right.k \in {"const", "var"} -> Comparison(op, left, right)
      [] left.k = "var" /\ right.k = "in" ->
            IF right.vs # {}
            THEN Comparison(op, left, Const(extreme(op, right.vs, "right")))
            ELSE new_null(left.n)
      [] left.k = "in" /\ right.k = "const" ->
            IF left.vs # {}
            THEN And(Comparison(op, Const(extreme(op, left.vs, "left")),
                                new_hidden(op, left, right)),
                     Comparison(op, new_hidden(op, left, right), right))
            ELSE new_null(new_hidden(op, left, right).n)
      [] left.k = "in" /\ right.k = "var" ->
            IF left.vs # {}
            THEN Comparison(op, Const(extreme(op, left.vs, "left")), right)
            ELSE new_null(right.n)
      [] left.k = "in" /\ right.k = "in" ->
            IF left.vs # {} /\ right.vs # {}
            THEN And(Comparison(op, Const(extreme(op, left.vs, "left")),
                                new_hidden(op, left, right)),
                     Comparison(op, new_hidden(op, left, right),
                                Const(extreme(op, right.vs, "right"))))
            ELSE new_null(new_hidden(op, left, right).n)

\* Comparison.substitute
ComparisonSubstitute(exp, contexts) ==
    SubstitutedComparison(exp.operator, OperandSubstitute(exp.left, contexts),
                          OperandSubstitute(exp.right, contexts))

\* LookUpExpression.substitute (And.substitute substitutes both sides)
RECURSIVE ExpSubstitute(_, _)
ExpSubstitute(exp, contexts) ==
    CASE exp.k \in {"const", "any"} -> exp
      [] exp.k = "var" -> VarSubstitute(exp, contexts)
      [] exp.k = "in" -> InSubstitute(exp, contexts)
      [] exp.k = "comparison" -> ComparisonSubstitute(exp, contexts)
      [] exp.k = "and" -> And(ExpSubstitute(exp.left, contexts),
                              ExpSubstitute(exp.right, contexts))

\* LookUpExpression.variable_types: the names an expression carries
RECURSIVE ExpVariables(_)
ExpVariables(exp) ==
    CASE exp.k = "const" -> {}
      [] exp.k \in {"var", "in", "any"} -> {exp.n}
      [] exp.k \in {"comparison", "and"} ->
            ExpVariables(exp.left) \union ExpVariables(exp.right)

\* the loops of LookUpExpression.matches over the matches of the two sides
\* of an And
AndMatches(left_matches, right_matches) ==
    Flatten([l \in 1..Len(left_matches) |->
        [r \in 1..Len(right_matches) |->
            DictUnion(left_matches[l], right_matches[r])]])

\* LookUpExpression.matches: the micro solutions of an expression over a value
RECURSIVE ExpMatches(_, _)
ExpMatches(exp, value) ==
    CASE exp.k = "const" -> IF ConstValue(exp) = value THEN <<EmptyContext>> ELSE <<>>
      [] exp.k = "in" -> IF value \in exp.vs THEN <<[n \in {exp.n} |-> value]>> ELSE <<>>
      [] exp.k = "var" -> <<[n \in {exp.n} |-> value]>>
      [] exp.k = "comparison" ->
            (CASE exp.left.k = "var" /\ exp.right.k = "const" ->
                    IF operators(exp.operator, value, ConstValue(exp.right))
                    THEN <<[n \in {exp.left.n} |-> value]>> ELSE <<>>
               [] exp.left.k = "var" /\ exp.right.k = "var" ->
                    <<[n \in {exp.left.n} |-> value], [n \in {exp.right.n} |-> value]>>
               [] exp.left.k = "const" /\ exp.right.k = "var" ->
                    IF operators(exp.operator, ConstValue(exp.left), value)
                    THEN <<[n \in {exp.right.n} |-> value]>> ELSE <<>>
               [] exp.left.k = "const" /\ exp.right.k = "const" ->
                    IF operators(exp.operator, ConstValue(exp.left), ConstValue(exp.right))
                    THEN <<EmptyContext>> ELSE <<>>
               [] OTHER -> <<>>)
      [] exp.k = "and" ->
            AndMatches(ExpMatches(exp.left, value), ExpMatches(exp.right, value))
      [] exp.k = "any" -> <<EmptyContext>>

(***************************************************************************)
(* core.py: Solution and Clause.                                           *)
(***************************************************************************)
Solution(context, derived_from) ==
    [context |-> context, derived_from |-> derived_from]

new_empty == Solution(EmptyContext, {})

Clause(entity, attr, value) == [entity |-> entity, attr |-> attr, value |-> value]

\* Clause.can_be_solved
can_be_solved(clause) ==
    /\ Cardinality(ExpVariables(clause.entity)) <= 1
    /\ Cardinality(ExpVariables(clause.value)) <= 1

\* Clause.substitute
ClauseSubstitute(clause, contexts) ==
    IF Len(contexts) = 0 THEN clause
    ELSE [clause EXCEPT !.entity = ExpSubstitute(clause.entity, contexts),
                        !.value = ExpSubstitute(clause.value, contexts)]

\* an as_fact that also makes a fact of a clause that is not ground, with
\* the name of the variable in the place of the missing ordinal
as_fact_of_any(clause) ==
    <<IF clause.entity.k = "const" THEN ConstValue(clause.entity) ELSE clause.entity.n,
      clause.attr,
      IF clause.value.k = "const" THEN ConstValue(clause.value) ELSE clause.value.n>>

\* Clause.as_fact; <<>> stands for None
as_fact(clause) ==
    IF clause.entity.k = "const" /\ clause.value.k = "const"
    THEN <<ConstValue(clause.entity), clause.attr, ConstValue(clause.value)>>
    ELSE <<>>

\* Clause.matches: value matches in the outer loop, entity matches in the inner
ClauseMatches(clause, fact) ==
    IF clause.attr # fact[2] THEN <<>>
    ELSE LET entity_matches == ExpMatches(clause.entity, fact[1])
             value_matches == ExpMatches(clause.value, fact[3])
         IN Flatten([v \in 1..Len(value_matches) |->
                [e \in 1..Len(entity_matches) |->
                    Solution(DictUnion(entity_matches[e], value_matches[v]), {fact})]])

\* Solution.satisfies_constrain
satisfies_constrain(self, clause_before_substitution, solution) ==
    LET fact == CHOOSE f \in solution.derived_from : TRUE
        constrain == ClauseSubstitute(clause_before_substitution, <<self.context>>)
    IN Len(ClauseMatches(constrain, fact)) > 0

\* the condition under which Solution.merge yields a merged solution
CanMerge(self, solution, clause_before_substitution) ==
    /\ \/ self.derived_from = {}
       \/ ~(self.derived_from \subseteq solution.derived_from)
    /\ DictUnion(self.context, solution.context)
          = DictUnion(solution.context, self.context)
    /\ satisfies_constrain(self, clause_before_substitution, solution)

\* Solution.merge
Merge(self, solutions, clause_before_substitution) ==
    LET ok == SelectSeq(solutions,
                  LAMBDA s : CanMerge(self, s, clause_before_substitution))
    IN [i \in 1..Len(ok) |->
           Solution(DictUnion(self.context, ok[i].context),
                    self.derived_from \union ok[i].derived_from)]

(***************************************************************************)
(* core.py: Predicate and Query.  A predicate is the list of its clauses. *)
(* The predicates of compiled rules are planned once, by compile_rules;   *)
(* Predicate.planned returns them unchanged afterwards.                   *)
(***************************************************************************)
\* Predicate.substitute: a dict substituted clause -> clause, in insertion
\* order; equal substituted clauses collapse into one key, the last one's
\* original clause being kept as the value.
PredicateSubstitute(clauses, contexts) ==
    LET subs == [i \in 1..Len(clauses) |-> ClauseSubstitute(clauses[i], contexts)]
    IN [clauses |-> Dedup(subs),
        clauses_before_substitution |->
            [c \in Range(subs) |->
                clauses[CHOOSE i \in 1..Len(subs) :
                    /\ subs[i] = c
                    /\ \A j \in 1..Len(subs) : subs[j] = c => j <= i]]]

\* Predicate.evaluate: the ground facts of the clauses under a context
Evaluate(clauses, context) ==
    LET sub == PredicateSubstitute(clauses, <<context>>).clauses
    IN SelectSeq([i \in 1..Len(sub) |-> as_fact(sub[i])], LAMBDA f : f # <<>>)

(***************************************************************************)
(* models.py: rows of StoredFact and the lookup the engine is given.      *)
(***************************************************************************)
StoredFact(fact, is_inferred, added, removed) ==
    [entity |-> fact[1], attr |-> fact[2], value |-> fact[3],
     is_inferred |-> is_inferred, added |-> added, removed |-> removed]

\* the column value_<suffix> of a row: Fact.as_dict fills the column of the
\* value's own type and leaves the others NULL
NULL == "NULL"

value_column(row, suffix) ==
    IF type_name(row.value) = suffix THEN row.value ELSE NULL

\* StoredFact.value returns value_str or value_int and raises ValueError when
\* both are NULL
has_value(row) == type_name(row.value) \in {"str", "int"}

\* StoredFact.as_fact, of a row whose value property returns
AsFact(row) == <<row.entity, row.attr, row.value>>

\* StoredFactQS.comparision_op_suffixes: the SQL comparison of a column; a
\* NULL column satisfies none
lookup_op(operator, field, value) == field # NULL /\ operators(operator, field, value)

\* StoredFactQS._lookup_exp_to_query; a comparison that for_lookup refuses
\* (RuntimeError) selects nothing
RECURSIVE LookupExpToQuery(_, _)
LookupExpToQuery(field, exp) ==
    CASE exp.k = "const" -> field = ConstValue(exp)
      [] exp.k \in {"var", "any"} -> TRUE
      [] exp.k = "in" -> field \in exp.vs
      [] exp.k = "comparison" ->
            /\ Len(for_lookup(exp)) = 3
            /\ lookup_op(for_lookup(exp)[2], field, for_lookup(exp)[3])
      [] exp.k = "and" ->
            LookupExpToQuery(field, exp.left) /\ LookupExpToQuery(field, exp.right)

\* StoredFactQS._lookup on a queryset holding `rows`
Lookup(rows, clause) ==
    LET suffix == ATTRIBUTES[clause.attr].data_type
        hit == SelectSeq(rows, LAMBDA r :
                  /\ LookupExpToQuery(r.entity, clause.entity)
                  /\ r.attr = clause.attr
                  /\ LookupExpToQuery(value_column(r, suffix), clause.value))
    IN [i \in 1..Len(hit) |->
           <<hit[i].entity, hit[i].attr, value_column(hit[i], suffix)>>]

\* Query.solve, with `rows` the queryset behind the lookup function.  The
\* steps of one call hand their values on as parameters.
RECURSIVE Solve(_, _, _)

\* the local solutions: clause.matches(fact) for fact in lookup(clause)
LocalSolutions(clause, found) ==
    Flatten([i \in 1..Len(found) |-> ClauseMatches(clause, found[i])])

\* the local solutions merged with the solutions so far
MergeAll(solutions, local, clause_before_substitution) ==
    Flatten([i \in 1..Len(solutions) |->
                Merge(solutions[i], local, clause_before_substitution)])

\* the first clause of the substituted, planned predicate is looked up and
\* the rest is solved from the merged solutions
SolveClause(predicate, clause, solutions, rows) ==
    Solve(Tail(predicate.clauses),
          MergeAll(solutions, LocalSolutions(clause, Lookup(rows, clause)),
                   predicate.clauses_before_substitution[clause]),
          rows)

SolveSubstituted(predicate, solutions, rows) ==
    SolveClause(predicate, Head(predicate.clauses), solutions, rows)

Solve(clauses, solutions, rows) ==
    IF Len(clauses) = 0 \/ Len(solutions) = 0 THEN solutions
    ELSE SolveSubstituted(
             PredicateSubstitute(clauses,
                 [i \in 1..Len(solutions) |-> solutions[i].context]),
             solutions, rows)

(***************************************************************************)
(* core.py: rules.  The rule id (a hash of the rule's text) is modelled   *)
(* by the rule's name.                                                     *)
(***************************************************************************)
Rule(name, predicate, implies, solution) ==
    [name |-> name, predicate |-> predicate, implies |-> implies,
     solution |-> solution]

\* the rules the settings can hold, as compile_rules returns them
CompiledRule(name) ==
    CASE name = "child" ->
            Rule(name,
                 <<Clause(Var("child"), "child_of", Var("parent"))>>,
                 <<Clause(Var("child"), "descendant_of", Var("parent"))>>,
                 new_empty)
      [] name = "grandchild" ->
            Rule(name,
                 <<Clause(Var("grandchild"), "descendant_of", Var("parent")),
                   Clause(Var("parent"), "descendant_of", Var("grandparent"))>>,
                 <<Clause(Var("grandchild"), "descendant_of", Var("grandparent"))>>,
                 new_empty)
      [] name = "elder" ->
            Rule(name,
                 <<Clause(Var("young"), "descendant_of", Var("old"))>>,
                 <<Clause(Var("young"), "elder", Var("old"))>>,
                 new_empty)
      [] name = "years" ->
            Rule(name,
                 <<Clause(Var("person"), "age", Var("n"))>>,
                 <<Clause(Var("person"), "years", Var("n"))>>,
                 new_empty)
      [] name = "heir" ->
            Rule(name,
                 <<Clause(Var("child"), "child_of", Var("parent"))>>,
                 <<Clause(Var("child"), "heir_of", In("parent", {"b"}))>>,
                 new_empty)

\* Rule.matches: one specialised rule per body clause the fact matches
RuleMatches(rule, fact) ==
    Flatten([c \in 1..Len(rule.predicate) |->
        LET clause == rule.predicate[c]
            matches == ClauseMatches(clause, fact)
            others == SelectSeq(rule.predicate, LAMBDA x : x # clause)
        IN [m \in 1..Len(matches) |->
               Rule(rule.name,
                    IF can_be_solved(clause) THEN others
                    ELSE Append(others,
                                ClauseSubstitute(clause, <<matches[m].context>>)),
                    rule.implies,
                    matches[m])]])

\* the loops of Rule.run and _run_rules over the solutions of the rule's
\* predicate: (fact, original rule id, bases)
RuleYield(rule, sols) ==
    Flatten([s \in 1..Len(sols) |->
        LET heads == Evaluate(rule.implies, sols[s].context)
        IN [h \in 1..Len(heads) |->
               [fact |-> heads[h], rule_id |-> rule.name,
                bases |-> sols[s].derived_from]]])

\* Rule.run followed by _run_rules
RuleRun(rule, rows) ==
    RuleYield(rule, Solve(rule.predicate, <<rule.solution>>, rows))

\* core.run_rules_matching
run_rules_matching(seeds, rules, rows) ==
    Flatten([f \in 1..Len(seeds) |->
        Flatten([r \in 1..Len(rules) |->
            LET matching == RuleMatches(CompiledRule(rules[r]), seeds[f])
            IN Flatten([m \in 1..Len(matching) |-> RuleRun(matching[m], rows)])])])

\* core.refresh_rules
refresh_rules(rules, rows) ==
    Flatten([r \in 1..Len(rules) |-> RuleRun(CompiledRule(rules[r]), rows)])

(***************************************************************************)
(* models.py: the write path.  A store is the pair of tables              *)
(* [facts, solutions]: StoredFact rows and InferredSolution rows.  An     *)
(* operation returns the store it leaves and how it ended: "ok",          *)
(* "raised" (ValueError) or "hung" (its loop never reaches an empty work  *)
(* list; the model gives the loop MaxRounds rounds).                       *)
(***************************************************************************)
Store(rows, sols) == [facts |-> rows, solutions |-> sols]

Ended(store, outcome) ==
    [facts |-> store.facts, solutions |-> store.solutions, outcome |-> outcome]

\* Fact.to_str, the text that Fact.storage_key hashes
storage_key(fact) == <<"fact", fact[1], fact[2], type_name(fact[3]), fact[3]>>

\* Fact.storage_key_for_many: the hash of the sorted texts of a set of facts
storage_key_for_many(bases) == {storage_key(f) : f \in bases}

InferredSolution(fact_id, fact, rule_id, bases) ==
    [inferred_fact_id |-> fact_id, inferred_fact_hash |-> storage_key(fact),
     rule_id |-> rule_id, solution_hash |-> storage_key_for_many(bases)]

\* StoredFactQS._as_of_now: the ids of the rows that are valid now
AsOfNow(rows) == {i \in 1..Len(rows) : rows[i].removed = 0}

\* a _garbage_collect that collects nothing
garbage_collect_nothing(store, tx_id) == store

\* a _garbage_collect that marks every inferred row without a justification,
\* the rows removed before included
garbage_collect_every_row(store, tx_id) ==
    Store([i \in 1..Len(store.facts) |->
              IF /\ store.facts[i].is_inferred
                 /\ \A j \in 1..Len(store.solutions) :
                       store.solutions[j].inferred_fact_id # i
              THEN [store.facts[i] EXCEPT !.removed = tx_id]
              ELSE store.facts[i]],
          store.solutions)

\* a _garbage_collect that marks every valid-now row without a
\* justification, the base facts included
garbage_collect_base_too(store, tx_id) ==
    Store([i \in 1..Len(store.facts) |->
              IF /\ store.facts[i].removed = 0
                 /\ \A j \in 1..Len(store.solutions) :
                       store.solutions[j].inferred_fact_id # i
              THEN [store.facts[i] EXCEPT !.removed = tx_id]
              ELSE store.facts[i]],
          store.solutions)

\* StoredFactQS._garbage_collect
garbage_collect(store, tx_id) ==
    LET n_solutions(i) ==
            Cardinality({j \in 1..Len(store.solutions) :
                            store.solutions[j].inferred_fact_id = i})
        orphan(i) ==
            /\ i \in AsOfNow(store.facts)
            /\ store.facts[i].is_inferred
            /\ n_solutions(i) = 0
    IN Store([i \in 1..Len(store.facts) |->
                 IF orphan(i) THEN [store.facts[i] EXCEPT !.removed = tx_id]
                 ELSE store.facts[i]],
             store.solutions)

\* one pass of the loop of _bulk_add: both bulk_create calls.  No insert is
\* ever ignored: the unique key of StoredFact holds value_str and value_int,
\* one of which is NULL in every row, and InferredSolution has no unique key.
BulkCreate(store, tx_id, fact_rule_id_bases) ==
    LET new == Dedup([i \in 1..Len(fact_rule_id_bases) |-> fact_rule_id_bases[i].fact])
        is_inferred == \E i \in 1..Len(fact_rule_id_bases) :
                           fact_rule_id_bases[i].rule_id # ""
        fact_to_stored_fact_id(fact) ==
            Len(store.facts) + (CHOOSE i \in 1..Len(new) : new[i] = fact)
        justified == SelectSeq(fact_rule_id_bases,
                         LAMBDA b : b.rule_id # "" /\ b.bases # {})
    IN Store(store.facts \o
                 [i \in 1..Len(new) |-> StoredFact(new[i], is_inferred, tx_id, 0)],
             store.solutions \o
                 [i \in 1..Len(justified) |->
                     InferredSolution(fact_to_stored_fact_id(justified[i].fact),
                                      justified[i].fact, justified[i].rule_id,
                                      justified[i].bases)])

\* StoredFactQS._bulk_add; the lookup is self._lookup on the manager's
\* queryset, which holds every row, removed or not.  The StoredFact rows of a
\* round are written before as_fact is read from them, so a value that
\* StoredFact.value cannot return raises with these rows stored.
RECURSIVE bulk_add_loop(_, _, _, _, _)
bulk_add_loop(store, tx_id, fact_rule_id_bases, rules, rounds) ==
    IF Len(fact_rule_id_bases) = 0 THEN Ended(garbage_collect(store, tx_id), "ok")
    ELSE IF rounds = 0 THEN Ended(store, "hung")
    ELSE IF \E i \in 1..Len(fact_rule_id_bases) :
                ~has_value(StoredFact(fact_rule_id_bases[i].fact, FALSE, tx_id, 0))
    THEN Ended(Store(BulkCreate(store, tx_id, fact_rule_id_bases).facts,
                     store.solutions), "raised")
    ELSE LET created == BulkCreate(store, tx_id, fact_rule_id_bases)
             seeds == [i \in 1..Len(fact_rule_id_bases) |-> fact_rule_id_bases[i].fact]
         IN bulk_add_loop(created, tx_id,
                          run_rules_matching(seeds, rules, created.facts),
                          rules, rounds - 1)

\* a Q built by OR-ing conditions, on a row: query is a set of <<entity, attr>>
\* or of <<entity, attr, value>> conditions
QueryMatches(query, row) ==
    \E c \in query :
        /\ row.entity = c[1]
        /\ row.attr = c[2]
        /\ Len(c) = 3 => row.value = c[3]

\* InferredSolution.objects.filter(q).delete(): q is the OR of the keys, and
\* the empty Q() it starts from filters nothing out
DeleteSolutions(sols, keys) ==
    IF keys = {} THEN <<>>
    ELSE SelectSeq(sols, LAMBDA s :
             [rule_id |-> s.rule_id, solution_hash |-> s.solution_hash,
              inferred_fact_hash |-> s.inferred_fact_hash] \notin keys)

\* a loop over the rows to remove that lets inferred rows pass
is_inferred_never(rows, ids) == FALSE

\* the loop of _bulk_remove over the rows to remove: is one of them inferred?
is_inferred_any(rows, ids) == \E i \in ids : rows[i].is_inferred

\* the same loop reads as_fact of each row: does one of them raise?
as_fact_raises(rows, ids) == \E i \in ids : ~has_value(rows[i])

\* the while loop of _bulk_remove and what follows it.  `found` is what
\* run_rules_matching yields for the facts of the current round (for the seeds
\* of the call: the facts to remove), `q` the keys collected so far, and
\* `stored_facts` the ids of the rows to mark removed.
RECURSIVE bulk_remove_loop(_, _, _, _, _, _, _)
bulk_remove_loop(found, q, store, stored_facts, tx_id, rules, rounds) ==
    IF Len(found) = 0
    THEN Ended(garbage_collect(
                   Store([i \in 1..Len(store.facts) |->
                             IF i \in stored_facts
                             THEN [store.facts[i] EXCEPT !.removed = tx_id]
                             ELSE store.facts[i]],
                         DeleteSolutions(store.solutions, q)),
                   tx_id),
               "ok")
    ELSE IF rounds = 0 THEN Ended(store, "hung")
    ELSE bulk_remove_loop(
             run_rules_matching(SetToSeq({found[i].fact : i \in 1..Len(found)}),
                                rules, store.facts),
             q \union {[rule_id |-> found[i].rule_id,
                        solution_hash |-> storage_key_for_many(found[i].bases),
                        inferred_fact_hash |-> storage_key(found[i].fact)] :
                           i \in 1..Len(found)},
             store, stored_facts, tx_id, rules, rounds - 1)

\* StoredFactQS._bulk_remove; the lookup is self._lookup on the manager's
\* queryset, which holds every row, removed or not
bulk_remove_query(store, tx_id, query, rules) ==
    LET stored_facts == {i \in AsOfNow(store.facts) : QueryMatches(query, store.facts[i])}
    IN IF is_inferred_any(store.facts, stored_facts)
             \/ as_fact_raises(store.facts, stored_facts)
       THEN Ended(store, "raised")
       ELSE bulk_remove_loop(
                run_rules_matching(SetToSeq({AsFact(store.facts[i]) : i \in stored_facts}),
                                   rules, store.facts),
                {}, store, stored_facts, tx_id, rules, MaxRounds)

\* StoredFactQS._remove_previous_values
remove_previous_values(store, tx_id, new_facts, rules) ==
    LET one == {f \in new_facts : ATTRIBUTES[f[2]].cardinality = "one"}
    IN IF one = {} THEN Ended(store, "ok")
       ELSE bulk_remove_query(store, tx_id, {<<f[1], f[2]>> : f \in one}, rules)

\* the second statement of bulk_add, reached when the first one returned
bulk_add_new(removed, tx_id, new_facts, rules) ==
    IF removed.outcome # "ok" THEN removed
    ELSE bulk_add_loop(Store(removed.facts, removed.solutions), tx_id,
                       [i \in 1..Len(new_facts) |->
                           [fact |-> new_facts[i], rule_id |-> "", bases |-> {}]],
                       rules, MaxRounds)

\* StoredFactQS.bulk_add, after Transaction.new()
bulk_add(store, tx_id, new_facts, rules) ==
    bulk_add_new(remove_previous_values(store, tx_id, Range(new_facts), rules),
                 tx_id, new_facts, rules)

\* StoredFactQS.bulk_remove of a non-empty set, after Transaction.new()
bulk_remove(store, tx_id, old_facts, rules) ==
    bulk_remove_query(store, tx_id, old_facts, rules)

\* StoredFactQS.refresh_inference, after Transaction.new()
refresh_inference(store, tx_id, rules) ==
    LET current == SelectSeq(store.solutions, LAMBDA s : s.rule_id \in Range(rules))
        collected == garbage_collect(Store(store.facts, current), tx_id)
    IN bulk_add_loop(collected, tx_id, refresh_rules(rules, collected.facts),
                     rules, MaxRounds)

(***************************************************************************)
(* The state: the three tables, the rules of the settings, and the log of *)
(* the calls made so far (each with the store it started from).           *)
(***************************************************************************)
\* stored_facts, inferred_solutions: the tables; transactions: the number of
\* Transaction rows, whose ids are 1..transactions; timestamps[i]: the
\* timestamp of transaction i; clock: the time Transaction.new reads;
\* inference_rules: the rules of the running process; history: the calls made
VARIABLES stored_facts, inferred_solutions, transactions, timestamps, clock,
          inference_rules, history

vars == <<stored_facts, inferred_solutions, transactions, timestamps, clock,
          inference_rules, history>>

\* the inputs of the model
Entities == {"a", "b", "c"}

Facts ==
    {<<"a", "child_of", "b">>, <<"b", "child_of", "c">>, <<"a", "child_of", "c">>,
     <<"a", "elder", "b">>, <<"a", "elder", "c">>, <<"a", "descendant_of", "b">>}

FactSets == {S \in SUBSET Facts : S # {} /\ Cardinality(S) <= MaxBatch}

AllRules == <<"child", "grandchild", "elder">>

RuleSets == {<<>>, <<"child">>, AllRules}

CurrentStore == Store(stored_facts, inferred_solutions)

Hung == Len(history) > 0 /\ history[Len(history)].outcome = "hung"

Init ==
    /\ stored_facts = <<>>
    /\ inferred_solutions = <<>>
    /\ transactions = 0
    /\ timestamps = <<>>
    /\ clock = 1
    /\ inference_rules = AllRules
    /\ history = <<>>

\* a call: Transaction.new(), then the writes of the operation
Call(op, arg, result) ==
    /\ transactions' = transactions + 1
    /\ timestamps' = Append(timestamps, clock)
    /\ clock' = clock
    /\ stored_facts' = result.facts
    /\ inferred_solutions' = result.solutions
    /\ history' = Append(history,
                         [op |-> op, arg |-> arg, outcome |-> result.outcome,
                          tx |-> transactions + 1, rules |-> inference_rules',
                          facts |-> stored_facts, solutions |-> inferred_solutions])

\* api.bulk_add(new_facts)
BulkAdd(new_facts) ==
    /\ ~Hung
    /\ inference_rules' = inference_rules
    /\ Call("bulk_add", new_facts,
            bulk_add(CurrentStore, transactions + 1, SetToSeq(new_facts),
                     inference_rules))

\* api.bulk_remove(old_facts)
BulkRemove(old_facts) ==
    /\ ~Hung
    /\ inference_rules' = inference_rules
    /\ Call("bulk_remove", old_facts,
            bulk_remove(CurrentStore, transactions + 1, old_facts, inference_rules))

\* a new process lifetime with the rules `rules` in its settings, whose
\* post_migrate handler calls api.refresh_inference()
RefreshInference(rules) ==
    /\ ~Hung
    /\ inference_rules' = rules
    /\ Call("refresh_inference", {},
            refresh_inference(CurrentStore, transactions + 1, rules))

Next ==
    \/ \E new_facts \in FactSets : transactions < MaxTx /\ BulkAdd(new_facts)
    \/ \E old_facts \in FactSets : transactions < MaxTx /\ BulkRemove(old_facts)
    \/ \E rules \in RuleSets : transactions < MaxTx /\ RefreshInference(rules)

Spec == Init /\ [][Next]_vars

(***************************************************************************)
(* A longer life of one family under the full rule set: the facts of the  *)
(* chain a -> b -> c, added alone or in pairs, removed one at a time.     *)
(***************************************************************************)
MaxChainTx == 4

ChainFacts ==
    {<<"a", "child_of", "b">>, <<"b", "child_of", "c">>, <<"a", "child_of", "c">>}

ChainSets == {S \in SUBSET ChainFacts : S # {} /\ Cardinality(S) <= MaxBatch}

NextChain ==
    \/ \E new_facts \in ChainSets : transactions < MaxChainTx /\ BulkAdd(new_facts)
    \/ \E old_fact \in ChainFacts : transactions < MaxChainTx /\ BulkRemove({old_fact})
    \/ transactions < MaxChainTx /\ RefreshInference(AllRules)

SpecChain == Init /\ [][NextChain]_vars

\* the calls of three transactions on two facts, while the clock runs: two
\* transactions may carry the same timestamp
MaxClockTx == 3

MaxClock == 3

ClockFacts == {<<"a", "child_of", "b">>, <<"b", "child_of", "c">>}

\* time passes between two calls
Tick ==
    /\ clock < MaxClock
    /\ clock' = clock + 1
    /\ UNCHANGED <<stored_facts, inferred_solutions, transactions, timestamps,
                   inference_rules, history>>

NextClock ==
    \/ \E new_fact \in ClockFacts : transactions < MaxClockTx /\ BulkAdd({new_fact})
    \/ \E old_fact \in ClockFacts : transactions < MaxClockTx /\ BulkRemove({old_fact})
    \/ transactions < MaxClockTx /\ RefreshInference(AllRules)
    \/ Tick

SpecClock == Init /\ [][NextClock]_vars

\* the calls of three transactions on cyclic data: a is a child of b and b
\* is a child of a
MaxCycleTx == 3

CycleFacts == {<<"a", "child_of", "b">>, <<"b", "child_of", "a">>}

CycleRuleSets == {<<"child">>, AllRules}

NextCycle ==
    \/ \E new_facts \in SUBSET CycleFacts :
          transactions < MaxCycleTx /\ new_facts # {} /\ BulkAdd(new_facts)
    \/ \E old_fact \in CycleFacts : transactions < MaxCycleTx /\ BulkRemove({old_fact})
    \/ \E rules \in CycleRuleSets : transactions < MaxCycleTx /\ RefreshInference(rules)

SpecCycle == Init /\ [][NextCycle]_vars

\* the calls of two transactions on facts of the three value types, under
\* a rule that copies an int value and a rule whose head holds an In
MaxTypedTx == 2

TypedFacts ==
    {<<"a", "child_of", "b">>, <<"a", "child_of", "c">>,
     <<"a", "age", "1">>, <<"a", "age", "2">>, <<"a", "height", "1.5">>}

TypedSets == {S \in SUBSET TypedFacts : S # {} /\ Cardinality(S) <= MaxBatch}

TypedRules == <<"years", "heir">>

InitTyped ==
    /\ stored_facts = <<>>
    /\ inferred_solutions = <<>>
    /\ transactions = 0
    /\ timestamps = <<>>
    /\ clock = 1
    /\ inference_rules = TypedRules
    /\ history = <<>>

NextTyped ==
    \/ \E new_facts \in TypedSets : transactions < MaxTypedTx /\ BulkAdd(new_facts)
    \/ \E old_fact \in TypedFacts : transactions < MaxTypedTx /\ BulkRemove({old_fact})
    \/ transactions < MaxTypedTx /\ RefreshInference(TypedRules)

SpecTyped == InitTyped /\ [][NextTyped]_vars

\* the calls of three transactions while the rule set of the settings
\* changes from one process lifetime to the next
MaxRulesTx == 3

RulesFacts == {<<"a", "child_of", "b">>, <<"b", "child_of", "c">>}

ChangedRuleSets == {<<"child">>, <<"elder">>, <<"child", "elder">>, AllRules}

NextRules ==
    \/ \E new_facts \in SUBSET RulesFacts :
          transactions < MaxRulesTx /\ new_facts # {} /\ BulkAdd(new_facts)
    \/ \E old_fact \in RulesFacts : transactions < MaxRulesTx /\ BulkRemove({old_fact})
    \/ \E rules \in ChangedRuleSets : transactions < MaxRulesTx /\ RefreshInference(rules)

SpecRules == Init /\ [][NextRules]_vars

(***************************************************************************)
(* What the claims speak of.                                               *)
(***************************************************************************)
ValidNow(rows) == {AsFact(rows[i]) : i \in AsOfNow(rows)}

ValidNowAs(rows, is_inferred) ==
    {AsFact(rows[i]) : i \in {j \in AsOfNow(rows) : rows[j].is_inferred = is_inferred}}

\* the facts a solution_hash was computed from
BasesOf(solution_hash) == {<<k[2], k[3], k[5]>> : k \in solution_hash}

FactOf(inferred_fact_hash) ==
    <<inferred_fact_hash[2], inferred_fact_hash[3], inferred_fact_hash[5]>>

\* the justification keys of a table of InferredSolution rows
Keys(sols) ==
    {[rule_id |-> sols[j].rule_id, solution_hash |-> sols[j].solution_hash,
      inferred_fact_hash |-> sols[j].inferred_fact_hash] : j \in 1..Len(sols)}

\* The meaning of a rule, stated without the evaluator: an instance of the
\* rule under a binding of its variables to ordinals.
Ordinals == Entities

RuleVariables(rule) ==
    UNION {ExpVariables(c.entity) \union ExpVariables(c.value) :
              c \in Range(rule.predicate) \union Range(rule.implies)}

Instance(clause, binding) ==
    LET value(exp) == IF exp.k = "const" THEN ConstValue(exp) ELSE binding[exp.n]
    IN <<value(clause.entity), clause.attr, value(clause.value)>>

\* the head instances of the rules whose body instances all lie in `known`,
\* each with the body facts it rests on
Derivations(known, rules) ==
    UNION {LET rule == CompiledRule(name)
           IN {[fact |-> Instance(rule.implies[h], binding),
                rule_id |-> name,
                bases |-> {Instance(c, binding) : c \in Range(rule.predicate)}] :
                   h \in 1..Len(rule.implies),
                   binding \in {b \in [RuleVariables(rule) -> Ordinals] :
                                   \A c \in Range(rule.predicate) :
                                       Instance(c, b) \in known}} :
           name \in Range(rules)}

Derivable(known, rules) == {d.fact : d \in Derivations(known, rules)}

\* the least fixed point of  base \union rules(base)
RECURSIVE Closure(_, _)
Closure(known, rules) ==
    LET more == known \union Derivable(known, rules)
    IN IF more = known THEN known ELSE Closure(more, rules)

LastCall == history[Len(history)]

Called == Len(history) > 0

\* every call so far was a bulk_add or a bulk_remove that committed
OnlyCommittedWrites ==
    \A i \in 1..Len(history) :
        /\ history[i].op \in {"bulk_add", "bulk_remove"}
        /\ history[i].outcome = "ok"

CardinalityOne == {attr \in DOMAIN ATTRIBUTES : ATTRIBUTES[attr].cardinality = "one"}

(***************************************************************************)
(* C1  Soundness of the closure: after any sequence of committed bulk_add *)
(* and bulk_remove calls under a fixed rule set, every valid-now inferred *)
(* fact lies in the least fixed point of the rules over the valid-now     *)
(* base facts.                                                             *)
(***************************************************************************)
C1_Soundness ==
    (Called /\ OnlyCommittedWrites) =>
        ValidNowAs(stored_facts, TRUE)
            \subseteq Closure(ValidNowAs(stored_facts, FALSE), inference_rules)

(***************************************************************************)
(* C2  Completeness of the closure: after any sequence of committed       *)
(* bulk_add and bulk_remove calls under a fixed rule set, every head fact *)
(* the rules yield from the valid-now facts is valid-now.                 *)
(***************************************************************************)
C2_Completeness ==
    (Called /\ OnlyCommittedWrites) =>
        Derivable(ValidNow(stored_facts), inference_rules)
            \subseteq ValidNow(stored_facts)

(***************************************************************************)
(* C10  Cardinality one: after every call, each entity has at most one    *)
(* valid-now fact of each attribute of cardinality one.                   *)
(***************************************************************************)
C10_CardinalityOne ==
    \A attr \in CardinalityOne : \A f, g \in ValidNow(stored_facts) :
        (f[2] = attr /\ g[2] = attr /\ f[1] = g[1]) => f = g

(***************************************************************************)
(* C7  Justification support: after a call returns, every valid-now       *)
(* inferred row has a justification row pointing at it whose rule_id is    *)
(* one of the rules of the running process (a process starts by running   *)
(* refresh_inference).                                                     *)
(***************************************************************************)
C7_JustificationSupport ==
    (Called /\ ~Hung) =>
        \A i \in AsOfNow(stored_facts) :
            stored_facts[i].is_inferred =>
                \E j \in 1..Len(inferred_solutions) :
                    /\ inferred_solutions[j].inferred_fact_id = i
                    /\ inferred_solutions[j].rule_id \in Range(inference_rules)

\* refresh_inference under a reduced rule set dropped justifications of a
\* rule that is gone and left an inferred fact of a rule that stays
C7_Witness ==
    /\ Called
    /\ LastCall.op = "refresh_inference"
    /\ LastCall.outcome = "ok"
    /\ \E j \in 1..Len(LastCall.solutions) :
           LastCall.solutions[j].rule_id \notin Range(inference_rules)
    /\ \E i \in AsOfNow(stored_facts) : stored_facts[i].is_inferred

(***************************************************************************)
(* C8  Cannot retract derived: bulk_remove(W) raises whenever a fact of W *)
(* is valid-now as an inferred fact, and then the stored facts and the    *)
(* justification rows are as they were before the call.                   *)
(***************************************************************************)
C8_CannotRetractDerived ==
    (/\ Called
     /\ LastCall.op = "bulk_remove"
     /\ LastCall.arg \cap ValidNowAs(LastCall.facts, TRUE) # {}) =>
        /\ LastCall.outcome = "raised"
        /\ stored_facts = LastCall.facts
        /\ inferred_solutions = LastCall.solutions

\* a bulk_remove of an inferred fact together with a base fact was refused
C8_Witness ==
    /\ Called
    /\ LastCall.op = "bulk_remove"
    /\ LastCall.outcome = "raised"
    /\ LastCall.arg \cap ValidNowAs(LastCall.facts, TRUE) # {}
    /\ LastCall.arg \cap ValidNowAs(LastCall.facts, FALSE) # {}
    /\ Len(LastCall.solutions) > 0

\* the store a call started from, and what the call retracted
FactsBefore == ValidNow(LastCall.facts)

Retracted == FactsBefore \ ValidNow(stored_facts)

(***************************************************************************)
(* C3  Cascading retraction is complete: after bulk_remove(W) commits, an *)
(* inferred fact that was derivable before the call, and whose every      *)
(* derivation from the facts valid before the call uses a fact of W or a  *)
(* fact the call retracted, is no longer valid-now as an inferred fact.   *)
(***************************************************************************)
C3_CascadeComplete ==
    (Called /\ LastCall.op = "bulk_remove" /\ LastCall.outcome = "ok") =>
        \A d \in ValidNowAs(LastCall.facts, TRUE) :
            LET derivations ==
                    {x \in Derivations(FactsBefore, LastCall.rules) : x.fact = d}
            IN (/\ derivations # {}
                /\ \A x \in derivations :
                       x.bases \cap (LastCall.arg \union Retracted) # {})
               => d \notin ValidNowAs(stored_facts, TRUE)

(***************************************************************************)
(* C4  No over-retraction: when a committed bulk_remove or bulk_add       *)
(* deletes a justification of an inferred fact d and leaves d another     *)
(* justification whose supporting facts are all valid-now, then d stays   *)
(* valid-now, and so does every fact that had a justification resting on  *)
(* d with all its supporting facts still valid-now.                       *)
(***************************************************************************)
C4_NoOverRetraction ==
    (Called /\ LastCall.op \in {"bulk_remove", "bulk_add"} /\ LastCall.outcome = "ok") =>
        LET before == Keys(LastCall.solutions)
            after == Keys(inferred_solutions)
            now == ValidNow(stored_facts)
            supported(k) == BasesOf(k.solution_hash) \subseteq now
        IN \A d \in ValidNowAs(LastCall.facts, TRUE) :
               (/\ \E k \in before \ after : FactOf(k.inferred_fact_hash) = d
                /\ \E k \in before \cap after :
                       FactOf(k.inferred_fact_hash) = d /\ supported(k))
               => /\ d \in now
                  /\ \A k \in before :
                         (d \in BasesOf(k.solution_hash) /\ supported(k))
                             => FactOf(k.inferred_fact_hash) \in now

(***************************************************************************)
(* C5  Closure determinism: when a set B of base facts has been inserted  *)
(* into the empty store by bulk_add calls on disjoint parts of B, the     *)
(* valid-now facts are those that one bulk_add of all of B leaves.        *)
(***************************************************************************)
C5_ClosureDeterminism ==
    (/\ Called
     /\ \A i \in 1..Len(history) :
            history[i].op = "bulk_add" /\ history[i].outcome = "ok"
     /\ \A i, j \in 1..Len(history) :
            i # j => history[i].arg \cap history[j].arg = {}) =>
        LET B == UNION {history[i].arg : i \in 1..Len(history)}
            at_once == bulk_add(Store(<<>>, <<>>), 1, SetToSeq(B), inference_rules)
        IN at_once.outcome = "ok" /\ ValidNow(stored_facts) = ValidNow(at_once.facts)

(***************************************************************************)
(* C6  Retraction undoes assertion: bulk_add(B) of facts that were not    *)
(* valid-now, followed by bulk_remove(B), completes without error and     *)
(* leaves the valid-now facts and the justification rows that were there  *)
(* before bulk_add(B).                                                     *)
(***************************************************************************)
C6_RetractionUndoesAssertion ==
    (/\ Len(history) >= 2
     /\ history[Len(history) - 1].op = "bulk_add"
     /\ LastCall.op = "bulk_remove"
     /\ LastCall.arg = history[Len(history) - 1].arg
     /\ LastCall.arg \cap ValidNow(history[Len(history) - 1].facts) = {}) =>
        /\ history[Len(history) - 1].outcome = "ok"
        /\ LastCall.outcome = "ok"
        /\ ValidNow(stored_facts) = ValidNow(history[Len(history) - 1].facts)
        /\ Keys(inferred_solutions) = Keys(history[Len(history) - 1].solutions)

(***************************************************************************)
(* C9  A base fact is always retractable: bulk_remove({f}) of a fact f    *)
(* that is valid-now as a base fact succeeds and leaves f not valid-now   *)
(* as a base fact.                                                         *)
(***************************************************************************)
C9_BaseFactRetractable ==
    (/\ Called
     /\ LastCall.op = "bulk_remove"
     /\ \E f \in ValidNowAs(LastCall.facts, FALSE) : LastCall.arg = {f}) =>
        /\ LastCall.outcome = "ok"
        /\ LastCall.arg \cap ValidNowAs(stored_facts, FALSE) = {}

(***************************************************************************)
(* models.py and core.py: the read path.                                   *)
(***************************************************************************)
\* an _as_of that forgets the removal marks: every row added up to `when`
as_of_added_only(rows, when) ==
    IF when = 0 THEN SelectSeq(rows, LAMBDA r : r.removed = 0)
    ELSE SelectSeq(rows, LAMBDA r : r.added <= when)

\* StoredFactQS._as_of with a transaction id (0 stands for None): the rows
\* of the queryset it returns
AsOf(rows, when) ==
    IF when = 0 THEN SelectSeq(rows, LAMBDA r : r.removed = 0)
    ELSE SelectSeq(rows, LAMBDA r :
             /\ r.removed = 0 \/ r.removed > when
             /\ r.added <= when)

\* the two variable sets Predicate.planned keeps per unsolved clause
\* an entry that forgets the variables of the value side
PlanEntry_entity_only(clause) ==
    [clause |-> clause, left |-> ExpVariables(clause.entity), right |-> {}]

PlanEntry(clause) ==
    [clause |-> clause, left |-> ExpVariables(clause.entity),
     right |-> ExpVariables(clause.value)]

\* the while loop of Predicate.planned over the unsolved clauses (a dict, in
\* insertion order): the clauses scheduled, and RuntimeError for an outcome
\* when clauses remain and none can be scheduled
RECURSIVE PlanLoop(_, _, _)
PlanLoop(unsolved, solved_variables, result) ==
    IF Len(unsolved) = 0 THEN [outcome |-> "ok", clauses |-> result]
    ELSE LET solvable == SelectSeq(unsolved, LAMBDA u :
                             Cardinality(u.left) <= 1 /\ Cardinality(u.right) <= 1)
             cost(u) == Cardinality(u.left \union u.right)
                          + 9 * Cardinality({n \in u.left \union u.right : is_hidden(n)})
             selected == solvable[CHOOSE i \in 1..Len(solvable) :
                             /\ \A j \in 1..Len(solvable) :
                                    cost(solvable[i]) <= cost(solvable[j])
                             /\ \A j \in 1..(i - 1) :
                                    cost(solvable[j]) > cost(solvable[i])]
             solved == solved_variables \union selected.left \union selected.right
             rest == SelectSeq(unsolved, LAMBDA u : u.clause # selected.clause)
         IN IF Len(solvable) = 0
            THEN [outcome |-> "RuntimeError", clauses |-> result]
            ELSE PlanLoop([i \in 1..Len(rest) |->
                              [rest[i] EXCEPT !.left = @ \ solved,
                                              !.right = @ \ solved]],
                          solved, Append(result, selected.clause))

\* a plan that keeps the clauses in the order they were written in
plan_input_order(clauses) == [outcome |-> "ok", clauses |-> Dedup(clauses)]

\* Predicate.planned of a predicate that was not planned yet: the plan, and
\* whether planning raises instead
plan(clauses) ==
    PlanLoop([i \in 1..Len(Dedup(clauses)) |-> PlanEntry(Dedup(clauses)[i])], {}, <<>>)

planned(clauses) == plan(clauses).clauses

planned_raises(clauses) == plan(clauses).outcome = "RuntimeError"

\* StoredFactQS.explain_solutions: Query.from_tuples(query).solve over the
\* lookup of the view `when`.  The query is substituted by the empty context
\* and planned on the first step of solve and stays planned afterwards.
explain_solutions(query, rows, when) ==
    Solve(planned(query), <<new_empty>>, AsOf(rows, when))

\* StoredFactQS.solve: the contexts of the solutions, in order
solve(query, rows, when) ==
    [i \in 1..Len(explain_solutions(query, rows, when)) |->
        explain_solutions(query, rows, when)[i].context]

(***************************************************************************)
(* C11  Supersession: a bulk_add that asserts one value v for (e, a), a   *)
(* of cardinality one, succeeds whatever value was valid before, and      *)
(* afterwards solve([(e, a, ?x)]) yields exactly the binding x = v.       *)
(***************************************************************************)
C11_Supersession ==
    (Called /\ LastCall.op = "bulk_add") =>
        \A f \in LastCall.arg :
            (/\ f[2] \in CardinalityOne
             /\ \A g \in LastCall.arg : (g[1] = f[1] /\ g[2] = f[2]) => g = f)
            => /\ LastCall.outcome = "ok"
               /\ Range(solve(<<Clause(Const(f[1]), f[2], Var("x"))>>, stored_facts, 0))
                      = {[n \in {"x"} |-> f[3]]}

\* Transaction.mutations of the transaction `tx`
mutations(rows, tx) ==
    LET added == SelectSeq(rows, LAMBDA r : r.added = tx)
        removed == SelectSeq(rows, LAMBDA r : r.removed = tx)
    IN [i \in 1..Len(added) |-> <<"+", AsFact(added[i])>>]
           \o [i \in 1..Len(removed) |-> <<"-", AsFact(removed[i])>>]

(***************************************************************************)
(* C12  One transaction per write, exact log: every row a committed       *)
(* bulk_add creates or marks removed carries the transaction id of the    *)
(* call, and the mutations of that transaction are '-' f for exactly the  *)
(* facts valid-now before and not after the call and '+' f for exactly    *)
(* the facts valid-now after and not before.                               *)
(***************************************************************************)
C12_ExactLog ==
    (Called /\ LastCall.op = "bulk_add" /\ LastCall.outcome = "ok") =>
        /\ \A i \in 1..Len(stored_facts) :
               IF i <= Len(LastCall.facts)
               THEN \/ stored_facts[i] = LastCall.facts[i]
                    \/ stored_facts[i] = [LastCall.facts[i] EXCEPT !.removed = LastCall.tx]
               ELSE stored_facts[i].added = LastCall.tx
        /\ Range(mutations(stored_facts, LastCall.tx))
               = {<<"-", f>> : f \in FactsBefore \ ValidNow(stored_facts)}
                     \union {<<"+", f>> : f \in ValidNow(stored_facts) \ FactsBefore}

(***************************************************************************)
(* C13  As-of isolation: for every transaction t of the history, the rows  *)
(* visible through as_of = t are the rows that were valid-now right after  *)
(* the call of t returned, whatever bulk_add, bulk_remove or               *)
(* refresh_inference calls came later.                                     *)
(***************************************************************************)
\* the store right after the i-th call of the history returned
StoreAfter(i) ==
    IF i < Len(history) THEN history[i + 1].facts ELSE stored_facts

\* the rows without their removal marks
Unmarked(rows) == [i \in 1..Len(rows) |-> [rows[i] EXCEPT !.removed = 0]]

C13_AsOfIsolation ==
    \A i \in 1..Len(history) :
        Unmarked(AsOf(stored_facts, history[i].tx)) = AsOf(StoreAfter(i), 0)

\* a later retraction has removed facts that an earlier transaction shows
C13_Witness ==
    /\ Len(history) = 2
    /\ history[2].op = "bulk_remove" /\ history[2].outcome = "ok"
    /\ AsOf(stored_facts, 1) # <<>>
    /\ ValidNow(stored_facts) # ValidNow(StoreAfter(1))

(***************************************************************************)
(* models.py: reads as of a timestamp.                                     *)
(***************************************************************************)
\* a Transaction.as_of that takes the first transaction instead of the last
transaction_as_of_first(stamps, when) ==
    IF \E i \in 1..Len(stamps) : stamps[i] <= when
    THEN CHOOSE i \in 1..Len(stamps) :
             /\ stamps[i] <= when
             /\ \A j \in 1..(i - 1) : ~(stamps[j] <= when)
    ELSE 0

\* Transaction.as_of: filter(timestamp__lte=when).last() under the ordering
\* by id; 0 stands for None
TransactionAsOf(stamps, when) ==
    LET found == SelectSeq([i \in 1..Len(stamps) |-> [id |-> i, timestamp |-> stamps[i]]],
                           LAMBDA tx : tx.timestamp <= when)
    IN IF Len(found) = 0 THEN 0 ELSE found[Len(found)].id

\* StoredFactQS._as_of with a datetime: the rows of the queryset it returns
as_of_datetime(rows, stamps, when) ==
    IF TransactionAsOf(stamps, when) = 0 THEN <<>>
    ELSE AsOf(rows, TransactionAsOf(stamps, when))

\* StoredFactQS.solve with as_of = a datetime
solve_datetime(query, rows, stamps, when) ==
    LET solutions == Solve(planned(query), <<new_empty>>,
                           as_of_datetime(rows, stamps, when))
    IN [i \in 1..Len(solutions) |-> solutions[i].context]

\* the queries read in the claims about reads
Queries ==
    {<<Clause(Var("x"), "child_of", Var("y"))>>,
     <<Clause(Var("x"), "descendant_of", Var("y"))>>,
     <<Clause(Const("a"), "elder", Var("y"))>>,
     <<Clause(Var("x"), "descendant_of", Var("y")),
       Clause(Var("y"), "child_of", Var("z"))>>}

\* the timestamps a caller may ask for: from before the first transaction on
Instants == 0..clock

\* the transactions whose timestamp is at most `when`
UpTo(when) == {tx \in 1..transactions : timestamps[tx] <= when}

(***************************************************************************)
(* C14  As-of by timestamp: a read as of the timestamp T returns the       *)
(* solutions of the read as of the id of the last transaction whose        *)
(* timestamp is at most T, and no solution when there is no such           *)
(* transaction.                                                            *)
(***************************************************************************)
C14_AsOfTimestamp ==
    \A when \in Instants : \A query \in Queries :
        IF UpTo(when) = {}
        THEN solve_datetime(query, stored_facts, timestamps, when) = <<>>
        ELSE \E tx \in UpTo(when) :
                /\ \A other \in UpTo(when) : other <= tx
                /\ solve_datetime(query, stored_facts, timestamps, when)
                       = solve(query, stored_facts, tx)

\* three transactions, the first two with one timestamp, and the read as of
\* that timestamp differs from the read as of the first transaction and
\* from the read as of now; no transaction at the instant 0
C14_Witness ==
    /\ transactions = 3
    /\ timestamps[1] = timestamps[2] /\ timestamps[2] < timestamps[3]
    /\ UpTo(0) = {}
    /\ \E query \in Queries :
          /\ solve_datetime(query, stored_facts, timestamps, timestamps[1])
                # solve(query, stored_facts, 1)
          /\ solve_datetime(query, stored_facts, timestamps, timestamps[1])
                # solve(query, stored_facts, 0)
          /\ solve_datetime(query, stored_facts, timestamps, timestamps[1]) # <<>>

(***************************************************************************)
(* C15  Termination: bulk_add, bulk_remove and refresh_inference each      *)
(* terminate on every finite store and rule set, also with recursive       *)
(* rules and cyclic data: no call of the history is left in its loop.      *)
(***************************************************************************)
C15_Termination ==
    \A i \in 1..Len(history) : history[i].outcome # "hung"

(***************************************************************************)
(* C16  Failure atomicity: when bulk_add, bulk_remove or                   *)
(* refresh_inference raises, the stored facts with their added and         *)
(* removed marks and the justification rows are those that existed before  *)
(* the call.                                                               *)
(***************************************************************************)
C16_FailureAtomicity ==
    \A i \in 1..Len(history) :
        history[i].outcome = "raised" =>
            /\ StoreAfter(i) = history[i].facts
            /\ (IF i < Len(history) THEN history[i + 1].solutions
                                    ELSE inferred_solutions) = history[i].solutions

(***************************************************************************)
(* C17  Append is idempotent on valid-now facts: after a sequence of       *)
(* bulk_add calls there is at most one valid-now stored fact per triple,   *)
(* and a single-clause query returns no solution twice.                    *)
(***************************************************************************)
OnlyBulkAdd ==
    \A i \in 1..Len(history) :
        history[i].op = "bulk_add" /\ history[i].outcome = "ok"

C17_OneRowPerTriple ==
    OnlyBulkAdd =>
        /\ \A i, j \in AsOfNow(stored_facts) :
               AsFact(stored_facts[i]) = AsFact(stored_facts[j]) => i = j
        /\ \A query \in Queries :
               Len(query) = 1 =>
                   \A i, j \in 1..Len(solve(query, stored_facts, 0)) :
                       solve(query, stored_facts, 0)[i] = solve(query, stored_facts, 0)[j]
                           => i = j

(***************************************************************************)
(* C18  refresh_inference after a change of the rule set: when it          *)
(* returns, no justification row carries a rule_id outside the current     *)
(* rule set, and the valid-now facts are the valid-now base facts plus the *)
(* closure of the current rules over them; so a fact that a kept rule      *)
(* derived from a fact only a dropped rule supported is no longer valid.   *)
(***************************************************************************)
C18_RefreshAfterRuleChange ==
    (Called /\ LastCall.op = "refresh_inference" /\ LastCall.outcome = "ok") =>
        /\ \A j \in 1..Len(inferred_solutions) :
               inferred_solutions[j].rule_id \in Range(inference_rules)
        /\ ValidNow(stored_facts)
               = Closure(ValidNowAs(stored_facts, FALSE), inference_rules)

(***************************************************************************)
(* C19  Head groundness and typing: every fact stored as inferred has a    *)
(* concrete string entity and a concrete value of the data type the       *)
(* schema declares for its attribute, and a head clause that is not fully *)
(* ground after substitution produces no stored fact.  The facts asserted *)
(* and the constants of the rules have the declared types.                *)
(***************************************************************************)
\* the rows a rule head stored
InferredRows == {i \in 1..Len(stored_facts) : stored_facts[i].is_inferred}

\* the head of the rule heir is ground only for the parent b: its rows
HeirRows == {i \in InferredRows : stored_facts[i].attr = "heir_of"}

ClauseVariableTypes(clause) ==
    {<<n, "str">> : n \in ExpVariables(clause.entity)}
        \union {<<n, IF clause.value.k = "and" THEN "str"
                     ELSE ATTRIBUTES[clause.attr].data_type>> :
                    n \in ExpVariables(clause.value)}

\* the pairs VarTypes.merge goes through for a predicate
variables_types(clauses) ==
    UNION {ClauseVariableTypes(clauses[i]) : i \in 1..Len(clauses)}

\* VarTypes.merge: the names found with two types
Mismatches(types) ==
    {p[1] : p \in {q \in types : \E r \in types : r[1] = q[1] /\ r[2] # q[2]}}

Names(types) == {p[1] : p \in types}

\* Predicate.from_tuples: every AnyType of the declaration becomes an Any
\* with a name of its own
from_tuples(kind, tuples) ==
    LET typed(exp, i, side) ==
            IF exp.k = "any" THEN AnyExp(hidden_name(kind, i, side)) ELSE exp
    IN [i \in 1..Len(tuples) |->
           Clause(typed(tuples[i].entity, i, "entity"), tuples[i].attr,
                  typed(tuples[i].value, i, "value"))]

\* a Rule.__init__ without the check of the missing variables
Rule_init_unchecked(predicate, implies) ==
    IF \E n \in Names(variables_types(implies)) : is_hidden(n) THEN "TypeError"
    ELSE IF Mismatches(variables_types(predicate) \union variables_types(implies)) # {}
    THEN "TypeError"
    ELSE "ok"

\* Rule.__init__ of a rule built from two predicates: how it ends
Rule_init(predicate, implies) ==
    IF \E n \in Names(variables_types(implies)) : is_hidden(n) THEN "TypeError"
    ELSE IF Names(variables_types(implies)) \ Names(variables_types(predicate)) # {}
    THEN "TypeError"
    ELSE IF Mismatches(variables_types(predicate) \union variables_types(implies)) # {}
    THEN "TypeError"
    ELSE "ok"

\* LookUpExpression.from_entity_expression raises TypeError for a comparison
\* with an int or a float and for an In holding a value that is not a str
RECURSIVE from_entity_expression_raises(_)
from_entity_expression_raises(exp) ==
    CASE exp.k = "and" ->
            from_entity_expression_raises(exp.left)
                \/ from_entity_expression_raises(exp.right)
      [] exp.k = "comparison" ->
            exp.right.k = "const" /\ type_name(ConstValue(exp.right)) # "str"
      [] exp.k = "in" -> \E v \in exp.vs : type_name(v) # "str"
      [] OTHER -> FALSE

\* ComparisionOperand.get_type of an operand of a value expression
get_type(operand, attr) ==
    IF operand.k = "const" THEN type_name(ConstValue(operand))
    ELSE ATTRIBUTES[attr].data_type

\* LookUpExpression.from_value_expression raises TypeError for a comparison
\* of two types; the sides of an And go through from_entity_expression
from_value_expression_raises(exp, attr) ==
    CASE exp.k = "and" ->
            from_entity_expression_raises(exp.left)
                \/ from_entity_expression_raises(exp.right)
      [] exp.k = "comparison" ->
            get_type(exp.left, attr) # get_type(exp.right, attr)
      [] OTHER -> FALSE

\* Predicate.from_tuples raises
from_tuples_raises(tuples) ==
    \E i \in 1..Len(tuples) :
        \/ from_entity_expression_raises(tuples[i].entity)
        \/ from_value_expression_raises(tuples[i].value, tuples[i].attr)

\* Predicate.from_tuples(...).planned of one side of a declaration: how it
\* ends
compile_predicate(kind, tuples) ==
    IF from_tuples_raises(tuples) THEN "TypeError"
    ELSE IF Mismatches(variables_types(from_tuples(kind, tuples))) # {} THEN "TypeError"
    ELSE IF planned_raises(from_tuples(kind, tuples)) THEN "RuntimeError"
    ELSE "ok"

\* core.compile_rules of one declaration: both predicates are built
\* (from_tuples and Predicate.__init__ raise TypeError) and planned (planned
\* raises RuntimeError), the body first, then the rule is built
compile_rules(rule) ==
    IF compile_predicate("predicate", rule.predicate) # "ok"
    THEN compile_predicate("predicate", rule.predicate)
    ELSE IF compile_predicate("implies", rule.implies) # "ok"
    THEN compile_predicate("implies", rule.implies)
    ELSE Rule_init(planned(from_tuples("predicate", rule.predicate)),
                   planned(from_tuples("implies", rule.implies)))

\* the declarations a settings module may hold: body and head of at most
\* MaxClauses clauses over variables, a constant and the wildcard
DeclaredClauses ==
    {Clause(entity, attr, value) :
        entity \in {Var("x"), Const("a")},
        attr \in {"child_of", "age"},
        value \in {Var("x"), Var("n"), AnyExp("")}}

DeclaredPredicates ==
    UNION {[1..k -> DeclaredClauses] : k \in 0..MaxClauses}

Declarations == [predicate : DeclaredPredicates, implies : DeclaredPredicates]

\* the import of models.py compiles the rules of the settings
CompileRules(rule) ==
    /\ history = <<>>
    /\ history' = <<[op |-> "compile_rules", arg |-> rule,
                     outcome |-> compile_rules(rule), tx |-> 0,
                     rules |-> inference_rules, facts |-> stored_facts,
                     solutions |-> inferred_solutions]>>
    /\ UNCHANGED <<stored_facts, inferred_solutions, transactions, timestamps,
                   clock, inference_rules>>

NextCompile == \E rule \in Declarations : CompileRules(rule)

SpecCompile == Init /\ [][NextCompile]_vars

(***************************************************************************)
(* C20  Rule variable coverage: given a well-typed body and head,          *)
(* compiling a rule fails with an error if and only if some variable of    *)
(* the head does not occur in the body.  The wildcard of an Any is a       *)
(* variable of its own, which occurs nowhere else.                         *)
(***************************************************************************)
\* the named variables written in the clauses of a declaration
Written(tuples) ==
    {exp.n : exp \in {e \in {tuples[i].entity : i \in 1..Len(tuples)}
                              \union {tuples[i].value : i \in 1..Len(tuples)} :
                          e.k \in {"var", "in"}}}

HasAny(tuples) ==
    \E i \in 1..Len(tuples) : tuples[i].entity.k = "any" \/ tuples[i].value.k = "any"

WellTyped(rule) ==
    Mismatches(variables_types(from_tuples("predicate", rule.predicate))
                   \union variables_types(from_tuples("implies", rule.implies))) = {}

Uncovered(rule) ==
    \/ Written(rule.implies) \ Written(rule.predicate) # {}
    \/ HasAny(rule.implies)

HeadClauses ==
    {Clause(entity, attr, value) :
        entity \in {Var("x"), Const("a"), AnyExp(""), In("x", {"a", "b"}),
                    Comparison("<", Var("x"), Const("b"))},
        attr \in {"child_of", "age"},
        value \in {Var("x"), Var("n"), AnyExp(""), In("x", {"a", "b"}),
                   In("n", {"1", "2"}), Comparison(">=", Var("n"), Const("1")),
                   Comparison("<", Var("x"), Var("y"))}}

HeadPredicates == UNION {[1..k -> HeadClauses] : k \in 0..MaxClauses}

HeadDeclarations == [predicate : DeclaredPredicates, implies : HeadPredicates]

NextHead == \E rule \in HeadDeclarations : CompileRules(rule)

SpecHead == Init /\ [][NextHead]_vars

(***************************************************************************)
(* C21  Rule head restriction: compile_rules rejects every rule whose     *)
(* head contains an Any wildcard, an In membership set or a comparison;   *)
(* the head clauses of an accepted rule hold only constants and           *)
(* variables.                                                              *)
(***************************************************************************)
OnlyConstAndVar(tuples) ==
    \A i \in 1..Len(tuples) :
        /\ tuples[i].entity.k \in {"const", "var"}
        /\ tuples[i].value.k \in {"const", "var"}

C21_HeadRestriction ==
    \A i \in 1..Len(history) :
        (history[i].op = "compile_rules" /\ history[i].outcome = "ok") =>
            OnlyConstAndVar(history[i].arg.implies)
(***************************************************************************)
(* ast.py: VarTypes.  A MergeResult is Ok(var_types) or Err(mismatches);  *)
(* a dict name -> type and a dict name -> set of types are both written   *)
(* as sets of pairs <<name, type>>.                                        *)
(***************************************************************************)
Ok(var_types) == [err |-> FALSE, value |-> var_types]

Err(mismatches) == [err |-> TRUE, value |-> mismatches]

\* the for loop of VarTypes.merge over the results from the i-th on
RECURSIVE MergeLoop(_, _, _, _)
MergeLoop(results, i, final_result, final_mismatches) ==
    IF i > Len(results)
    THEN (IF final_mismatches # {} THEN Err(final_mismatches) ELSE Ok(final_result))
    ELSE IF results[i].err
    THEN MergeLoop(results, i + 1, final_result,
                   final_mismatches \union results[i].value)
    ELSE LET var_types == results[i].value
             clash == {p \in var_types :
                          \E r \in final_result : r[1] = p[1] /\ r[2] # p[2]}
         IN MergeLoop(results, i + 1,
                \* a name keeps the type it was first given
                final_result \union
                    {p \in var_types : \A r \in final_result : r[1] # p[1]},
                final_mismatches \union clash \union
                    {r \in final_result : \E p \in clash : p[1] = r[1]})

\* VarTypes.merge
merge(results) == MergeLoop(results, 1, {}, {})

\* LookUpExpression.variable_types of an expression typed data_type
RECURSIVE variable_types(_, _)
variable_types(exp, data_type) ==
    CASE exp.k = "const" -> Ok({})
      [] exp.k \in {"in", "var", "any"} -> Ok({<<exp.n, data_type>>})
      [] exp.k \in {"comparison", "and"} ->
            merge(<<variable_types(exp.left, data_type),
                    variable_types(exp.right, data_type)>>)

\* Clause.variable_types: the entity side is typed str, the value side by
\* the attribute (an And of the value side by from_entity_expression: str)
clause_variable_types(clause) ==
    merge(<<variable_types(clause.entity, "str"),
            variable_types(clause.value,
                IF clause.value.k = "and" THEN "str"
                ELSE ATTRIBUTES[clause.attr].data_type)>>)

\* Predicate.__init__: Ok with the variables' types, or the mismatches that
\* VarTypes.raise_error puts in the one TypeError
Predicate_init(clauses) ==
    merge([i \in 1..Len(clauses) |-> clause_variable_types(clauses[i])])

\* the merge of Rule.__init__ over a body and a head that were constructed
Rule_init_types(predicate, implies) ==
    merge(<<Ok(Predicate_init(predicate).value), Ok(Predicate_init(implies).value)>>)

(***************************************************************************)
(* Construction of predicates and rules from typed clauses.                *)
(***************************************************************************)
MaxPredicateClauses == 2

MaxRuleSide == 1

TypedClauses ==
    {Clause(entity, attr, value) :
        entity \in {Var("x"), Var("n"), Const("a")},
        attr \in {"child_of", "age", "height"},
        value \in {Var("x"), Var("n"), Comparison("<", Var("x"), Var("n"))}}

TypedPredicates == UNION {[1..k -> TypedClauses] : k \in 0..MaxPredicateClauses}

\* the bodies and heads rules are constructed from
TypedSides == UNION {[1..k -> TypedClauses] : k \in 0..MaxRuleSide}

\* Predicate(clauses)
ConstructPredicate(clauses) ==
    /\ history = <<>>
    /\ history' = <<[op |-> "Predicate", arg |-> <<clauses>>,
                     outcome |-> IF Predicate_init(clauses).err THEN "TypeError"
                                 ELSE "ok",
                     error |-> IF Predicate_init(clauses).err
                               THEN Predicate_init(clauses).value ELSE {},
                     tx |-> 0, rules |-> inference_rules, facts |-> stored_facts,
                     solutions |-> inferred_solutions]>>
    /\ UNCHANGED <<stored_facts, inferred_solutions, transactions, timestamps,
                   clock, inference_rules>>

\* Rule(name, predicate, implies) of two constructed predicates whose head
\* names no variable the body lacks
ConstructRule(predicate, implies) ==
    /\ history = <<>>
    /\ ~Predicate_init(predicate).err /\ ~Predicate_init(implies).err
    /\ Names(Predicate_init(implies).value) \subseteq Names(Predicate_init(predicate).value)
    /\ history' = <<[op |-> "Rule", arg |-> <<predicate, implies>>,
                     outcome |-> IF Rule_init_types(predicate, implies).err
                                 THEN "TypeError" ELSE "ok",
                     error |-> IF Rule_init_types(predicate, implies).err
                               THEN Rule_init_types(predicate, implies).value ELSE {},
                     tx |-> 0, rules |-> inference_rules, facts |-> stored_facts,
                     solutions |-> inferred_solutions]>>
    /\ UNCHANGED <<stored_facts, inferred_solutions, transactions, timestamps,
                   clock, inference_rules>>

NextPredicate ==
    \/ \E clauses \in TypedPredicates : ConstructPredicate(clauses)
    \/ \E predicate \in TypedSides, implies \in TypedSides :
          ConstructRule(predicate, implies)

SpecPredicate == Init /\ [][NextPredicate]_vars

(***************************************************************************)
(* C22  Type mismatch: constructing a predicate (or a rule from body and  *)
(* head) fails if and only if some variable name occurs with two          *)
(* different types across its clauses, and the single error raised names  *)
(* every conflicting variable with all the types observed for it.         *)
(***************************************************************************)
\* the pairs <<name, type>> a construction observes, over all its clauses
Observed(arg) == UNION {variables_types(arg[i]) : i \in 1..Len(arg)}

\* the observed pairs of the names observed with two types
Conflicts(arg) == {p \in Observed(arg) : p[1] \in Mismatches(Observed(arg))}

C22_TypeMismatch ==
    \A i \in 1..Len(history) :
        history[i].op \in {"Predicate", "Rule"} =>
            /\ history[i].outcome = "TypeError" <=> Conflicts(history[i].arg) # {}
            /\ history[i].outcome = "TypeError" =>
                  history[i].error = Conflicts(history[i].arg)
(***************************************************************************)
(* Planning of predicates whose clauses may hold two variables on a side. *)
(***************************************************************************)
PlanClauses ==
    {Clause(entity, "child_of", value) :
        entity \in {Var("x"), Var("z"), Comparison("<", Var("x"), Var("y"))},
        value \in {Var("y"), AnyExp(""), Comparison("<", Var("y"), Var("z")),
                   And(Comparison("<", Var("y"), Var("z")),
                       Comparison("<", Var("z"), Var("x")))}}

PlanPredicates == UNION {[1..k -> PlanClauses] : k \in 0..MaxPlanClauses}

\* Predicate.from_tuples(attributes, tuples).planned
Planned(tuples) ==
    /\ history = <<>>
    /\ history' = <<[op |-> "planned", arg |-> from_tuples("predicate", tuples),
                     outcome |-> plan(from_tuples("predicate", tuples)).outcome,
                     plan |-> plan(from_tuples("predicate", tuples)).clauses,
                     tx |-> 0, rules |-> inference_rules, facts |-> stored_facts,
                     solutions |-> inferred_solutions]>>
    /\ UNCHANGED <<stored_facts, inferred_solutions, transactions, timestamps,
                   clock, inference_rules>>

NextPlan == \E tuples \in PlanPredicates : Planned(tuples)

SpecPlan == Init /\ [][NextPlan]_vars

(***************************************************************************)
(* C23  Unsolvable predicate: planning raises an error exactly when, at   *)
(* some step, clauses remain unscheduled and none of them has at most one *)
(* not-yet-solved variable on the entity side and at most one on the      *)
(* value side; otherwise planning returns a plan that contains every      *)
(* input clause exactly once.                                              *)
(***************************************************************************)
\* the variables of a set of clauses
VariablesOf(clauses) ==
    UNION {ExpVariables(c.entity) \union ExpVariables(c.value) : c \in clauses}

\* a clause with at most one variable per side that is not among `solved`
Ready(clause, solved) ==
    /\ Cardinality(ExpVariables(clause.entity) \ solved) <= 1
    /\ Cardinality(ExpVariables(clause.value) \ solved) <= 1

\* a step at which clauses remain and none is ready: the clauses of
\* `scheduled` were taken one by one, each ready when it was taken
RECURSIVE StuckAfter(_, _)
StuckAfter(clauses, scheduled) ==
    LET remain == clauses \ scheduled
        ready == {c \in remain : Ready(c, VariablesOf(scheduled))}
    IN IF remain = {} THEN FALSE
       ELSE IF ready = {} THEN TRUE
       ELSE \E c \in ready : StuckAfter(clauses, scheduled \union {c})

Count(seq, x) == Cardinality({i \in 1..Len(seq) : seq[i] = x})

C23_UnsolvablePredicate ==
    \A i \in 1..Len(history) :
        history[i].op = "planned" =>
            /\ history[i].outcome = "RuntimeError"
                  <=> StuckAfter(Range(history[i].arg), {})
            /\ history[i].outcome # "RuntimeError" =>
                  /\ \A c \in Range(history[i].arg) : Count(history[i].plan, c) = 1
                  /\ Range(history[i].plan) \subseteq Range(history[i].arg)

\* planning raised after it had scheduled a clause
C23_Witness ==
    /\ Called /\ LastCall.op = "planned"
    /\ LastCall.outcome = "RuntimeError"
    /\ Len(LastCall.plan) > 0
    /\ Len(LastCall.arg) = MaxPlanClauses
(***************************************************************************)
(* Reads of a store without rules: two siblings and three int values,     *)
(* queried by joins, comparisons, membership sets and wildcards.          *)
(***************************************************************************)
MaxQueryTx == 2

QueryFacts ==
    {<<"a", "child_of", "c">>, <<"b", "child_of", "c">>,
     <<"a", "years", "1">>, <<"b", "years", "2">>, <<"c", "years", "2">>}

QuerySets == {S \in SUBSET QueryFacts : S # {} /\ Cardinality(S) <= MaxBatch}

\* the predicates the reads are given, as Query.from_tuples types them
JoinQueries ==
    {<<Clause(Var("c1"), "child_of", Var("p")),
       Clause(Var("c2"), "child_of", Var("p"))>>,
     <<Clause(Var("c1"), "child_of", Var("p")),
       Clause(Var("c2"), "child_of", Var("p")),
       Clause(Var("c3"), "child_of", Var("p"))>>,
     <<Clause(Var("x"), "child_of", Var("p")),
       Clause(Var("x"), "years", Var("n"))>>,
     <<Clause(In("x", {"a", "b"}), "years", Var("n")),
       Clause(AnyExp(hidden_name("predicate", 2, "entity")), "years", Var("n"))>>}

ComparisonQueries ==
    {<<Clause(Var("x"), "years", Comparison("<=", Var("n"), Const("1")))>>,
     <<Clause(Var("x"), "years", Comparison(">", Var("n"), Const("1")))>>,
     <<Clause(Var("x"), "years", Var("n")),
       Clause(Var("y"), "years", Comparison(">=", Var("n"), Var("m")))>>,
     <<Clause(Var("x"), "years", Var("n")),
       Clause(Var("y"), "years", Comparison("<", Var("m"), Var("n")))>>,
     <<Clause(Var("x"), "years", Var("n")),
       Clause(Var("y"), "years", Comparison("<=", Var("n"), Const("2")))>>}

QueryPredicates == JoinQueries \union ComparisonQueries

InitQuery ==
    /\ stored_facts = <<>>
    /\ inferred_solutions = <<>>
    /\ transactions = 0
    /\ timestamps = <<>>
    /\ clock = 1
    /\ inference_rules = <<>>
    /\ history = <<>>

\* a read was made
WasRead == Called /\ LastCall.op = "explain_solutions"

\* api.explain_solutions(query, as_of=when); when = 0 reads the valid-now view
ExplainSolutions(query, when) ==
    /\ ~WasRead
    /\ history' = Append(history,
            [op |-> "explain_solutions", arg |-> query, when |-> when,
             outcome |-> IF planned_raises(query) THEN "RuntimeError" ELSE "ok",
             result |-> IF planned_raises(query) THEN <<>>
                        ELSE explain_solutions(query, stored_facts, when),
             tx |-> transactions, rules |-> inference_rules,
             facts |-> stored_facts, solutions |-> inferred_solutions])
    /\ UNCHANGED <<stored_facts, inferred_solutions, transactions, timestamps,
                   clock, inference_rules>>

NextQuery ==
    \/ \E new_facts \in QuerySets :
          transactions < MaxQueryTx /\ ~WasRead /\ BulkAdd(new_facts)
    \/ \E old_fact \in QueryFacts :
          transactions < MaxQueryTx /\ ~WasRead /\ BulkRemove({old_fact})
    \/ \E query \in QueryPredicates, when \in 0..transactions :
          ExplainSolutions(query, when)

SpecQuery == InitQuery /\ [][NextQuery]_vars

(***************************************************************************)
(* C24  Planner soundness: for every solvable predicate and every store,  *)
(* solving the planned predicate returns the same set of solutions as an  *)
(* exhaustive nested-loop evaluation of the clauses in their original     *)
(* order; the solution set does not depend on the order in which the      *)
(* clauses are written or scheduled.                                       *)
(***************************************************************************)
\* the facts of a view, each once
Visible(rows, when) ==
    LET view == AsOf(rows, when)
    IN Dedup([i \in 1..Len(view) |-> AsFact(view[i])])

\* the nested loops over the clauses in the order given: every visible fact
\* is tried for every clause and joined by Solution.merge
RECURSIVE NestedLoop(_, _, _)
NestedLoop(clauses, solutions, facts) ==
    IF Len(clauses) = 0 THEN solutions
    ELSE NestedLoop(Tail(clauses),
                    MergeAll(solutions, LocalSolutions(Head(clauses), facts),
                             Head(clauses)),
                    facts)

Contexts(solutions) == {solutions[i].context : i \in 1..Len(solutions)}

\* the orders a predicate can be written in
Orders(n) == {p \in [1..n -> 1..n] : \A i, j \in 1..n : p[i] = p[j] => i = j}

Reordered(query, p) == [i \in 1..Len(query) |-> query[p[i]]]

C24_PlannerSoundness ==
    \A i \in 1..Len(history) :
        (history[i].op = "explain_solutions" /\ history[i].arg \in JoinQueries) =>
            /\ Contexts(history[i].result)
                  = Contexts(NestedLoop(history[i].arg, <<new_empty>>,
                                 Visible(history[i].facts, history[i].when)))
            /\ \A p \in Orders(Len(history[i].arg)) :
                  Contexts(explain_solutions(Reordered(history[i].arg, p),
                               history[i].facts, history[i].when))
                      = Contexts(history[i].result)
(***************************************************************************)
(* C25  Justification of query answers: for every solution (context,      *)
(* justification) returned by explain_solutions(query, as_of), every fact *)
(* of the justification is visible in the queried view, and every clause  *)
(* of the query is satisfied, after substituting the context, by some     *)
(* fact of the justification: variables equal the fact's fields and       *)
(* comparisons hold for the bound values.                                  *)
(***************************************************************************)
Bound(operand, context) == operand.k = "const" \/ operand.n \in DOMAIN context

ValueOf(operand, context) ==
    IF operand.k = "const" THEN ConstValue(operand) ELSE context[operand.n]

\* an expression holds for a field of a fact under the bindings of a context
RECURSIVE Holds(_, _, _)
Holds(exp, field, context) ==
    CASE exp.k = "const" -> ConstValue(exp) = field
      [] exp.k = "var" -> exp.n \in DOMAIN context /\ context[exp.n] = field
      [] exp.k = "in" ->
            exp.n \in DOMAIN context /\ context[exp.n] = field /\ field \in exp.vs
      [] exp.k = "any" -> TRUE
      [] exp.k = "comparison" ->
            /\ Bound(exp.left, context) /\ Bound(exp.right, context)
            /\ operators(exp.operator, ValueOf(exp.left, context),
                         ValueOf(exp.right, context))
            /\ \/ exp.left.k = "var" /\ ValueOf(exp.left, context) = field
               \/ exp.right.k = "var" /\ ValueOf(exp.right, context) = field
      [] exp.k = "and" -> Holds(exp.left, field, context) /\ Holds(exp.right, field, context)

Satisfies(fact, clause, context) ==
    /\ fact[2] = clause.attr
    /\ Holds(clause.entity, fact[1], context)
    /\ Holds(clause.value, fact[3], context)

Justified(query, solution, visible) ==
    /\ solution.derived_from \subseteq visible
    /\ \A c \in 1..Len(query) :
          \E fact \in solution.derived_from : Satisfies(fact, query[c], solution.context)

C25_JustifiedAnswers ==
    \A i \in 1..Len(history) :
        history[i].op = "explain_solutions" =>
            \A s \in 1..Len(history[i].result) :
                Justified(history[i].arg, history[i].result[s],
                          Range(Visible(history[i].facts, history[i].when)))
(***************************************************************************)
(* C26  No fact is joined with itself: in every solution of a             *)
(* multi-clause query or rule body, two different clauses are never       *)
(* satisfied by the same stored fact: a solution joins as many facts as   *)
(* the query has clauses, and the clauses can be given different facts of *)
(* its justification.                                                      *)
(***************************************************************************)
\* some way of giving every clause a fact of its own that satisfies it
DistinctFacts(query, solution) ==
    \E g \in [1..Len(query) -> solution.derived_from] :
        /\ \A i, j \in 1..Len(query) : g[i] = g[j] => i = j
        /\ \A i \in 1..Len(query) : Len(ClauseMatches(query[i], g[i])) > 0

C26_NoSelfJoin ==
    \A i \in 1..Len(history) :
        (history[i].op = "explain_solutions" /\ history[i].arg \in JoinQueries) =>
            \A s \in 1..Len(history[i].result) :
                /\ Cardinality(history[i].result[s].derived_from) = Len(history[i].arg)
                /\ DistinctFacts(history[i].arg, history[i].result[s])
(***************************************************************************)
(* C27  All three value types are usable: for an attribute declared       *)
(* String, Int or Float, bulk_add of a fact whose value has the declared  *)
(* type succeeds, the fact becomes valid-now and is returned by solve; no *)
(* value type makes a write fail.                                          *)
(***************************************************************************)
OfDeclaredType(fact) == type_name(fact[3]) = ATTRIBUTES[fact[2]].data_type

C27_AllTypesUsable ==
    \A i \in 1..Len(history) :
        (history[i].op = "bulk_add" /\ \A fact \in history[i].arg : OfDeclaredType(fact)) =>
            /\ history[i].outcome = "ok"
            /\ \A fact \in history[i].arg :
                  ATTRIBUTES[fact[2]].cardinality = "many" =>
                      /\ \E r \in AsOfNow(StoreAfter(i)) :
                            /\ StoreAfter(i)[r].entity = fact[1]
                            /\ StoreAfter(i)[r].attr = fact[2]
                            /\ StoreAfter(i)[r].value = fact[3]
                      /\ \E s \in 1..Len(solve(<<Clause(Const(fact[1]), fact[2], Var("v"))>>,
                                               StoreAfter(i), 0)) :
                            solve(<<Clause(Const(fact[1]), fact[2], Var("v"))>>,
                                  StoreAfter(i), 0)[s]["v"] = fact[3]
(***************************************************************************)
(* C28  Writes join only against current facts: during bulk_add,          *)
(* bulk_remove and refresh_inference rule bodies are evaluated only       *)
(* against facts that are valid-now, so a fact marked removed in an       *)
(* earlier transaction never appears in the justification of an inferred  *)
(* fact added by a later transaction.                                      *)
(***************************************************************************)
\* the fact had a row that was valid when the transaction tx began
ValidAt(fact, tx) ==
    \E r \in 1..Len(stored_facts) :
        /\ AsFact(stored_facts[r]) = fact
        /\ stored_facts[r].added <= tx
        /\ stored_facts[r].removed = 0 \/ stored_facts[r].removed >= tx

C28_WritesJoinCurrentFacts ==
    \A s \in 1..Len(inferred_solutions) :
        \A base \in BasesOf(inferred_solutions[s].solution_hash) :
            ValidAt(base, stored_facts[inferred_solutions[s].inferred_fact_id].added)

(***************************************************************************)
(* C29  Lookup never under-approximates: for every clause the evaluator   *)
(* can pass to the store (constants, Var, Any, In, And, and a comparison  *)
(* with operator <, <=, > or >= with the constant on either side) and     *)
(* every store content, the facts returned by _lookup include every       *)
(* visible fact for which the clause's matches yields at least one        *)
(* binding.                                                                *)
(***************************************************************************)
ComparisonOperators == {"<", "<=", ">", ">="}

\* the entity and value expressions of the clauses looked up
LookupEntities ==
    {Const("a"), Var("x"), AnyExp(hidden_name("predicate", 1, "entity")),
     In("x", {"a", "b"})}
        \union {Comparison(op, Var("x"), Const("b")) : op \in ComparisonOperators}
        \union {Comparison(op, Const("b"), Var("x")) : op \in ComparisonOperators}

LookupValues ==
    {Const("2"), Var("n"), AnyExp(hidden_name("predicate", 1, "value")),
     In("n", {"1", "2"}),
     And(Comparison("<=", Const("1"), Var("h")),
         Comparison("<=", Var("h"), Const("2")))}
        \union {Comparison(op, Var("n"), Const("2")) : op \in ComparisonOperators}
        \union {Comparison(op, Const("2"), Var("n")) : op \in ComparisonOperators}

LookupClauses ==
    {Clause(entity, "years", value) :
        entity \in LookupEntities, value \in LookupValues}
        \union {Clause(entity, "child_of", Var("p")) : entity \in LookupEntities}

\* a lookup was made
WasLookedUp == Called /\ LastCall.op = "_lookup"

\* StoredFactQS._as_of(when)._lookup(clause), the call Query.solve makes for
\* each clause of a read; when = 0 is the valid-now view
LookupCall(clause, when) ==
    /\ ~WasLookedUp
    /\ history' = Append(history,
            [op |-> "_lookup", arg |-> clause, when |-> when,
             outcome |-> "ok",
             result |-> Lookup(AsOf(stored_facts, when), clause),
             tx |-> transactions, rules |-> inference_rules,
             facts |-> stored_facts, solutions |-> inferred_solutions])
    /\ UNCHANGED <<stored_facts, inferred_solutions, transactions, timestamps,
                   clock, inference_rules>>

NextLookup ==
    \/ \E new_facts \in QuerySets :
          transactions < MaxQueryTx /\ ~WasLookedUp /\ BulkAdd(new_facts)
    \/ \E old_fact \in QueryFacts :
          transactions < MaxQueryTx /\ ~WasLookedUp /\ BulkRemove({old_fact})
    \/ \E clause \in LookupClauses, when \in 0..transactions :
          LookupCall(clause, when)

SpecLookup == InitQuery /\ [][NextLookup]_vars

\* the facts of a sequence, as a set
Returned(facts) == {facts[i] : i \in 1..Len(facts)}

C29_LookupNeverUnderApproximates ==
    WasLookedUp =>
        \A fact \in Returned(Visible(LastCall.facts, LastCall.when)) :
            Len(ClauseMatches(LastCall.arg, fact)) > 0 =>
                fact \in Returned(LastCall.result)

(***************************************************************************)
(* C30  Justification rows are a set: after any sequence of writes there  *)
(* is at most one justification row per key (rule_id, justification_hash, *)
(* derived_fact_hash) for a given valid-now inferred fact, also when the  *)
(* same derivation is found several times in one saturation round or      *)
(* again in a later transaction.                                           *)
(***************************************************************************)
\* the key of a justification row
SolutionKey(solution) ==
    <<solution.rule_id, solution.solution_hash, solution.inferred_fact_hash>>

C30_JustificationRowsAreASet ==
    \A s, t \in 1..Len(inferred_solutions) :
        /\ SolutionKey(inferred_solutions[s]) = SolutionKey(inferred_solutions[t])
        /\ inferred_solutions[s].inferred_fact_id = inferred_solutions[t].inferred_fact_id
        /\ stored_facts[inferred_solutions[s].inferred_fact_id].removed = 0
        => s = t

(***************************************************************************)
(* C31  Merge subset rule: Solution.merge(self, other, clause) yields no  *)
(* merged solution whenever self's justification set is non-empty and one *)
(* of the two justification sets is a subset of the other (in either      *)
(* direction); the empty solution merges with any matching solution.      *)
(***************************************************************************)
MergeFacts ==
    {<<"a", "child_of", "c">>, <<"b", "child_of", "c">>,
     <<"d", "child_of", "c">>, <<"a", "child_of", "b">>}

MergeClauses ==
    {Clause(Var("c1"), "child_of", Var("p")),
     Clause(Var("c2"), "child_of", Var("p")),
     Clause(Var("c3"), "child_of", Var("p"))}

\* the local solutions of a clause: clause.matches(fact) for each fact
LocalOf(clause) ==
    UNION {Range(ClauseMatches(clause, fact)) : fact \in MergeFacts}

\* the solutions Query.solve holds before a clause is merged in: the empty
\* one, the local solutions of a first clause and those joined with a second
MergeSelves ==
    {new_empty}
        \union LocalOf(Clause(Var("c1"), "child_of", Var("p")))
        \union UNION {Range(Merge(self, SetToSeq(LocalOf(Clause(Var("c2"), "child_of", Var("p")))),
                                  Clause(Var("c2"), "child_of", Var("p")))) :
                        self \in LocalOf(Clause(Var("c1"), "child_of", Var("p")))}

\* a merge was made
WasMerged == Called /\ LastCall.op = "merge"

\* self.merge([solution], clause_before_substitution)
MergeCall(self, solution, clause_before_substitution) ==
    /\ ~WasMerged
    /\ history' = Append(history,
            [op |-> "merge", arg |-> <<self, solution, clause_before_substitution>>,
             outcome |-> "ok",
             result |-> Merge(self, <<solution>>, clause_before_substitution),
             tx |-> transactions, rules |-> inference_rules,
             facts |-> stored_facts, solutions |-> inferred_solutions])
    /\ UNCHANGED <<stored_facts, inferred_solutions, transactions, timestamps,
                   clock, inference_rules>>

NextMerge ==
    \E self \in MergeSelves, clause \in MergeClauses :
        \E solution \in LocalOf(clause) : MergeCall(self, solution, clause)

SpecMerge == InitQuery /\ [][NextMerge]_vars

\* one of the two justification sets is a subset of the other
InSubsetRelation(self, solution) ==
    \/ self.derived_from \subseteq solution.derived_from
    \/ solution.derived_from \subseteq self.derived_from

C31_MergeSubsetRule ==
    WasMerged =>
        /\ LastCall.arg[1].derived_from # {}
              /\ InSubsetRelation(LastCall.arg[1], LastCall.arg[2])
              => LastCall.result = <<>>
        /\ LastCall.arg[1] = new_empty => Len(LastCall.result) = 1

(***************************************************************************)
(* C32  Greedy plan order: at every step the planner schedules, among the *)
(* ready clauses, the one with the lowest score, where the score is the   *)
(* sum over the clause's not-yet-solved variables of 10 for an Any        *)
(* wildcard and 1 for any other variable (variables bound by the known    *)
(* solutions or solved by earlier picks count 0); among equal scores it   *)
(* schedules the clause that comes first in the input.                    *)
(***************************************************************************)
OrderClauses ==
    {Clause(Var("x"), "child_of", Var("p")),
     Clause(Var("p"), "child_of", Var("g")),
     Clause(Const("a"), "child_of", Var("p")),
     Clause(AnyExp(""), "child_of", Var("p")),
     Clause(Var("x"), "years", Var("n")),
     Clause(In("x", {"a", "b"}), "years", Var("n")),
     Clause(Var("y"), "years", AnyExp(""))}

OrderPredicates == UNION {[1..k -> OrderClauses] : k \in 1..MaxPlanClauses}

\* the contexts of the solutions a query is built with: the default empty
\* solution, one known binding, and two solutions that differ in a binding
KnownContexts ==
    {<<EmptyContext>>,
     <<[n \in {"g"} |-> "c"]>>,
     <<[n \in {"p"} |-> "c"]>>,
     <<[n \in {"x"} |-> "a"], [n \in {"x"} |-> "b"]>>}

\* Query(Predicate.from_tuples(tuples), solutions).solve up to its plan:
\* predicate.substitute(contexts).planned
PlanQuery(tuples, contexts) ==
    /\ history = <<>>
    /\ history' = <<[op |-> "substitute_planned",
                     arg |-> <<from_tuples("predicate", tuples), contexts>>,
                     outcome |-> plan(PredicateSubstitute(
                                     from_tuples("predicate", tuples), contexts).clauses).outcome,
                     plan |-> plan(PredicateSubstitute(
                                     from_tuples("predicate", tuples), contexts).clauses).clauses,
                     tx |-> 0, rules |-> inference_rules, facts |-> stored_facts,
                     solutions |-> inferred_solutions]>>
    /\ UNCHANGED <<stored_facts, inferred_solutions, transactions, timestamps,
                   clock, inference_rules>>

NextOrder ==
    \E tuples \in OrderPredicates, contexts \in KnownContexts :
        PlanQuery(tuples, contexts)

SpecOrder == Init /\ [][NextOrder]_vars

\* the names every known solution binds
BoundNames(contexts) ==
    {n \in UNION {DOMAIN contexts[i] : i \in 1..Len(contexts)} :
        \A i \in 1..Len(contexts) : n \in DOMAIN contexts[i]}

\* the score of a clause whose variables `done` are bound or solved
Score(clause, done) ==
    LET open == (ExpVariables(clause.entity) \union ExpVariables(clause.value)) \ done
    IN Cardinality(open) + 9 * Cardinality({n \in open : is_hidden(n)})

\* the greedy schedule of the substituted clauses `todo` (in input order),
\* each scored as the clause it was before the substitution: the first of
\* the ready clauses with the lowest score, again and again
RECURSIVE Greedy(_, _, _)
Greedy(todo, before, done) ==
    IF Len(todo) = 0 THEN <<>>
    ELSE LET ready == {i \in 1..Len(todo) : Ready(before[todo[i]], done)}
             pick == CHOOSE i \in ready :
                        /\ \A j \in ready :
                              Score(before[todo[i]], done) <= Score(before[todo[j]], done)
                        /\ \A j \in ready :
                              j < i => Score(before[todo[j]], done) > Score(before[todo[i]], done)
         IN IF ready = {} THEN <<>>
            ELSE <<todo[pick]>> \o
                 Greedy(SelectSeq(todo, LAMBDA c : c # todo[pick]), before,
                        done \union VariablesOf({before[todo[pick]]}))

\* the schedule of a predicate under the contexts of the known solutions
GreedyPlan(clauses, contexts) ==
    Greedy(PredicateSubstitute(clauses, contexts).clauses,
           PredicateSubstitute(clauses, contexts).clauses_before_substitution,
           BoundNames(contexts))

SubstituteNames == {"x", "y"}

SubstituteValues == {"a", "b"}

\* the contexts that bind some of the names
SubstituteContexts ==
    UNION {[names -> SubstituteValues] : names \in SUBSET SubstituteNames}

\* the batches of contexts, the empty one included
ContextBatches == UNION {[1..k -> SubstituteContexts] : k \in 0..MaxContexts}

SubstituteExps ==
    {Var("x"), Var("y"), Const("a"), AnyExp(hidden_name("predicate", 1, "value")),
     In("x", {"a", "b"}), In("x", {"a"}), In("x", {"b", "c"}), In("y", {"c"}),
     Comparison("<", Var("x"), Const("b")),
     Comparison(">=", Const("b"), Var("y")),
     Comparison("<=", Var("x"), Var("y"))}

\* a substitution was made
WasSubstituted == Called /\ LastCall.op = "substitute"

\* LookUpExpression.substitute(exp, contexts)
Substitute(exp, contexts) ==
    /\ history = <<>>
    /\ history' = <<[op |-> "substitute", arg |-> <<exp, contexts>>,
                     outcome |-> "ok", result |-> ExpSubstitute(exp, contexts),
                     tx |-> 0, rules |-> inference_rules, facts |-> stored_facts,
                     solutions |-> inferred_solutions]>>
    /\ UNCHANGED <<stored_facts, inferred_solutions, transactions, timestamps,
                   clock, inference_rules>>

NextSubstitute ==
    \E exp \in SubstituteExps, contexts \in ContextBatches : Substitute(exp, contexts)

SpecSubstitute == InitQuery /\ [][NextSubstitute]_vars

(***************************************************************************)
(* C33  Variable substitution: substituting Var(n) with a non-empty batch *)
(* of contexts returns the Var unchanged if at least one context does not *)
(* bind n, the constant v if every context binds n to the same v, and     *)
(* In(n, values) with exactly the set of bound values if the contexts     *)
(* bind n to two or more distinct values.                                  *)
(***************************************************************************)
\* every context of the batch binds the name
AllBind(contexts, name) == \A i \in 1..Len(contexts) : name \in DOMAIN contexts[i]

\* the values the contexts bind the name to
BoundValues(contexts, name) ==
    {contexts[i][name] : i \in {j \in 1..Len(contexts) : name \in DOMAIN contexts[j]}}

DeadFacts ==
    {<<"a", "child_of", "c">>, <<"a", "years", "1">>, <<"b", "years", "2">>}

DeadSets == {S \in SUBSET DeadFacts : S # {} /\ Cardinality(S) <= MaxBatch}

DeadQueries ==
    {<<Clause(In("x", {"a", "b"}), "years", Var("n"))>>,
     <<Clause(In("x", {"b", "c"}), "years", Var("n"))>>,
     <<Clause(Var("x"), "child_of", Var("p")),
       Clause(In("x", {"b", "c"}), "years", Var("n"))>>,
     <<Clause(In("x", {"b", "c"}), "years", Var("n")),
       Clause(Var("x"), "child_of", Var("p"))>>,
     <<Clause(Var("x"), "years", In("n", {"1", "2"}))>>,
     <<Clause(Var("y"), "years", Comparison("<=", Var("n"), Const("2")))>>,
     <<Clause(Var("x"), "years", Var("n")),
       Clause(Var("x"), "child_of", Var("p"))>>,
     <<Clause(In("x", {"b", "c"}), "child_of", Var("p")),
       Clause(Var("x"), "years", Var("n")),
       Clause(Var("p"), "years", Var("m"))>>}

\* the solutions a query is built with
KnownSolutions ==
    {<<new_empty>>,
     <<Solution([n \in {"x"} |-> "a"], {})>>,
     <<Solution([n \in {"x"} |-> "a"], {}), Solution([n \in {"x"} |-> "b"], {})>>,
     <<Solution([n \in {"n"} |-> "1"], {})>>,
     <<Solution([n \in {"n"} |-> "2"], {}), Solution([n \in {"x"} |-> "c"], {})>>}

ContextsOf(solutions) == [i \in 1..Len(solutions) |-> solutions[i].context]

\* predicate.substitute(contexts).planned of a predicate that was not
\* planned before
SubstitutedPlanned(substituted) ==
    [substituted EXCEPT !.clauses = planned(substituted.clauses)]

\* Query(predicate, solutions).solve(lookup) of a predicate that was not
\* planned before: the first step substitutes and plans, the later steps
\* find the predicate planned
query_solve(clauses, solutions, rows) ==
    IF Len(clauses) = 0 \/ Len(solutions) = 0 THEN solutions
    ELSE SolveSubstituted(
             SubstitutedPlanned(PredicateSubstitute(clauses, ContextsOf(solutions))),
             solutions, rows)

\* the calls of the lookup function that Query.solve makes, in order: the
\* clause handed over and the number of solutions held at that moment
RECURSIVE SolveLookups(_, _, _)

\* a solve that calls the lookup function once for every solution it holds
LookupsOfClause_per_solution(predicate, clause, solutions, rows) ==
    [i \in 1..Len(solutions) |-> [clause |-> clause, solutions |-> Len(solutions)]]
        \o SolveLookups(Tail(predicate.clauses),
                        MergeAll(solutions, LocalSolutions(clause, Lookup(rows, clause)),
                                 predicate.clauses_before_substitution[clause]),
                        rows)

\* one step of Query.solve: lookup(clause) is called once, then the rest is
\* solved from the merged solutions
LookupsOfClause(predicate, clause, solutions, rows) ==
    <<[clause |-> clause, solutions |-> Len(solutions)]>>
        \o SolveLookups(Tail(predicate.clauses),
                        MergeAll(solutions, LocalSolutions(clause, Lookup(rows, clause)),
                                 predicate.clauses_before_substitution[clause]),
                        rows)

LookupsOfSubstituted(predicate, solutions, rows) ==
    LookupsOfClause(predicate, Head(predicate.clauses), solutions, rows)

SolveLookups(clauses, solutions, rows) ==
    IF Len(clauses) = 0 \/ Len(solutions) = 0 THEN <<>>
    ELSE LookupsOfSubstituted(
             PredicateSubstitute(clauses, ContextsOf(solutions)), solutions, rows)

\* the lookups of Query(predicate, solutions).solve(lookup)
query_lookups(clauses, solutions, rows) ==
    IF Len(clauses) = 0 \/ Len(solutions) = 0 THEN <<>>
    ELSE LookupsOfSubstituted(
             SubstitutedPlanned(PredicateSubstitute(clauses, ContextsOf(solutions))),
             solutions, rows)

\* a query was solved
WasSolved == Called /\ LastCall.op = "query_solve"

QuerySolve(query, solutions) ==
    /\ ~WasSolved
    /\ history' = Append(history,
            [op |-> "query_solve", arg |-> <<query, solutions>>, outcome |-> "ok",
             result |-> query_solve(query, solutions, AsOf(stored_facts, 0)),
             lookups |-> query_lookups(query, solutions, AsOf(stored_facts, 0)),
             tx |-> transactions, rules |-> inference_rules,
             facts |-> stored_facts, solutions |-> inferred_solutions])
    /\ UNCHANGED <<stored_facts, inferred_solutions, transactions, timestamps,
                   clock, inference_rules>>

NextDead ==
    \/ \E new_facts \in DeadSets :
          transactions < MaxDeadTx /\ ~WasSolved /\ ~WasSubstituted /\ BulkAdd(new_facts)
    \/ \E query \in DeadQueries, solutions \in KnownSolutions :
          ~WasSubstituted /\ QuerySolve(query, solutions)
    \/ \E exp \in SubstituteExps, contexts \in ContextBatches :
          Substitute(exp, contexts)

SpecDead == InitQuery /\ [][NextDead]_vars

(***************************************************************************)
(* C34  Dead clause: substituting In(n, S) with contexts that all bind n  *)
(* yields the intersection of S with the bound values (a constant when    *)
(* exactly one value remains); when the intersection is empty, or when a  *)
(* comparison is substituted with an empty set of candidates, the         *)
(* resulting clause matches no fact and the query or rule body containing *)
(* it yields no solution.                                                  *)
(***************************************************************************)
\* an In without values
IsNull(exp) == exp.k = "in" /\ exp.vs = {}

\* a clause that holds an In without values
IsDead(clause) == IsNull(clause.entity) \/ IsNull(clause.value)

\* the ordinals of the model
AllOrdinals == {"a", "b", "c", "d", "1", "1.5", "2"}

\* the values of the In that the contexts leave
Remaining(exp, contexts) == exp.vs \intersect BoundValues(contexts, exp.n)

RECURSIVE NamedIn(_)
NamedIn(exp) ==
    CASE exp.k \in {"var", "in"} -> {exp.n}
      [] exp.k \in {"comparison", "and"} -> NamedIn(exp.left) \union NamedIn(exp.right)
      [] OTHER -> {}

\* the variables named in a query
QueryNames(query) ==
    UNION {NamedIn(query[i].entity) \union NamedIn(query[i].value) :
              i \in 1..Len(query)}

C35_HiddenNamesNeverLeak ==
    (WasRead /\ LastCall.outcome = "ok") =>
        \A s \in 1..Len(LastCall.result) :
            DOMAIN LastCall.result[s].context = QueryNames(LastCall.arg)

(***************************************************************************)
(* C36  Set-at-a-time evaluation: solving a query issues exactly one      *)
(* store lookup for each clause it processes, whatever the number of      *)
(* intermediate solutions, and issues no further lookup once the solution *)
(* set is empty; a query of n clauses therefore issues at most n lookups. *)
(***************************************************************************)
C36_SetAtATime ==
    WasSolved =>
        /\ Len(LastCall.lookups) <= Len(LastCall.arg[1])
        /\ \A j \in 1..Len(LastCall.lookups) : LastCall.lookups[j].solutions > 0
        /\ LastCall.result # <<>> =>
              {LastCall.lookups[j].clause.attr : j \in 1..Len(LastCall.lookups)}
                  = {LastCall.arg[1][i].attr : i \in 1..Len(LastCall.arg[1])}

\* a query of two clauses was solved with one lookup for the second clause
\* although two solutions were held
C36_Witness ==
    /\ WasSolved
    /\ Len(LastCall.arg[1]) = 2
    /\ Len(LastCall.lookups) = 2
    /\ LastCall.lookups[2].solutions = 2
    /\ LastCall.result # <<>>

(***************************************************************************)
(* The life of three facts under the full rule set: a child_of fact, from *)
(* which an elder fact is inferred, and two values of the cardinality-one *)
(* attribute elder, added, removed, added again and refreshed.            *)
(***************************************************************************)
LifeFacts ==
    {<<"a", "child_of", "b">>, <<"a", "elder", "b">>, <<"a", "elder", "c">>}

LifeSets == {S \in SUBSET LifeFacts : S # {} /\ Cardinality(S) <= MaxBatch}

NextLife ==
    \/ \E new_facts \in LifeSets : transactions < MaxLifeTx /\ BulkAdd(new_facts)
    \/ \E old_fact \in LifeFacts : transactions < MaxLifeTx /\ BulkRemove({old_fact})
    \/ transactions < MaxLifeTx /\ RefreshInference(AllRules)

SpecLife == Init /\ [][NextLife]_vars

(***************************************************************************)
(* C37  History is append-only: no operation deletes a stored fact or     *)
(* changes its entity, attribute, value, is_inferred flag or added        *)
(* transaction; the removed transaction of a stored fact is set at most   *)
(* once and only while the fact is valid-now, so a removed fact never     *)
(* becomes valid again and its removal transaction never changes.         *)
(***************************************************************************)
\* one step keeps every row in its place and may only mark valid-now rows
\* as removed
AppendOnly ==
    /\ Len(stored_facts') >= Len(stored_facts)
    /\ \A r \in 1..Len(stored_facts) :
          /\ stored_facts'[r] = [stored_facts[r] EXCEPT !.removed = stored_facts'[r].removed]
          /\ stored_facts[r].removed # 0 =>
                stored_facts'[r].removed = stored_facts[r].removed

C37_HistoryIsAppendOnly == [][AppendOnly]_vars

\* a fact was removed and added again later: its old row is still marked
\* with the transaction that removed it, next to a valid-now row
C37_Witness ==
    \E r, q \in 1..Len(stored_facts) :
        /\ AsFact(stored_facts[r]) = AsFact(stored_facts[q])
        /\ stored_facts[r].removed # 0
        /\ stored_facts[q].removed = 0
        /\ stored_facts[q].added > stored_facts[r].removed

(***************************************************************************)
(* C38  Garbage collection and cascades leave base facts alone: a base    *)
(* (non-inferred) fact is marked removed only when it is named in a       *)
(* bulk_remove call or superseded by a bulk_add on the same (entity,      *)
(* cardinality-one attribute); garbage collection, retraction cascades    *)
(* and refresh_inference never mark a base fact removed.                   *)
(***************************************************************************)
\* the call a step has appended to the history
ThisCall == history'[Len(history')]

\* the step marks the row r as removed
Marks(r) == stored_facts[r].removed = 0 /\ stored_facts'[r].removed # 0

\* the call names the fact of the row in a bulk_remove, or adds a value for
\* its entity and its cardinality-one attribute
NamedOrSuperseded(row, call) ==
    \/ call.op = "bulk_remove" /\ AsFact(row) \in call.arg
    \/ /\ call.op = "bulk_add"
       /\ row.attr \in CardinalityOne
       /\ \E fact \in call.arg : fact[1] = row.entity /\ fact[2] = row.attr

\* the base facts a step marks are named or superseded by its call, and the
\* base facts it stores are valid-now when it ends
BaseFactsLeftAlone ==
    /\ \A r \in 1..Len(stored_facts) :
          (~stored_facts[r].is_inferred /\ Marks(r)) =>
              /\ Len(history') = Len(history) + 1
              /\ NamedOrSuperseded(stored_facts[r], ThisCall)
    /\ \A r \in (Len(stored_facts) + 1)..Len(stored_facts') :
          ~stored_facts'[r].is_inferred => stored_facts'[r].removed = 0

C38_BaseFactsLeftAlone == [][BaseFactsLeftAlone]_vars

\* a base fact was superseded by a bulk_add, an inferred fact was collected
\* and base facts are still valid
C38_Witness ==
    /\ \E r \in 1..Len(stored_facts), i \in 1..Len(history) :
          /\ ~stored_facts[r].is_inferred
          /\ stored_facts[r].removed # 0
          /\ history[i].op = "bulk_add" /\ history[i].outcome = "ok"
          /\ history[i].tx = stored_facts[r].removed
    /\ \E r \in 1..Len(stored_facts) :
          stored_facts[r].is_inferred /\ stored_facts[r].removed # 0
    /\ \E r \in 1..Len(stored_facts) :
          ~stored_facts[r].is_inferred /\ stored_facts[r].removed = 0

(***************************************************************************)
(* C39  Incremental and from-scratch inference agree: when the store was   *)
(* built only by bulk_add and bulk_remove calls under the current rule    *)
(* set, a refresh_inference call changes neither the set of valid-now     *)
(* facts nor the set of justification keys; and a refresh_inference call  *)
(* right after another leaves the same valid-now set as the first.        *)
(***************************************************************************)
\* the justification rows right after the i-th call of the history returned
SolutionsAfter(i) ==
    IF i < Len(history) THEN history[i + 1].solutions ELSE inferred_solutions

\* the i-th call is a refresh_inference that committed under the rules the
\* calls before it ran under
IsRefresh(i) ==
    /\ history[i].op = "refresh_inference"
    /\ history[i].outcome = "ok"
    /\ history[i].rules = AllRules

\* every call before the i-th was a bulk_add or a bulk_remove that committed
BuiltByWrites(i) ==
    \A j \in 1..(i - 1) :
        /\ history[j].op \in {"bulk_add", "bulk_remove"}
        /\ history[j].outcome = "ok"
        /\ history[j].rules = AllRules

RefreshKeepsFacts(i) == ValidNow(StoreAfter(i)) = ValidNow(history[i].facts)

RefreshKeepsKeys(i) == Keys(SolutionsAfter(i)) = Keys(history[i].solutions)

C39_RefreshAgreesWithIncremental ==
    \A i \in 1..Len(history) :
        /\ (IsRefresh(i) /\ BuiltByWrites(i)) =>
               RefreshKeepsFacts(i) /\ RefreshKeepsKeys(i)
        /\ (i > 1 /\ IsRefresh(i) /\ IsRefresh(i - 1)) => RefreshKeepsFacts(i)
====
